---- MODULE Spec2Model ----
(***************************************************************************)
(* Model of the analysis engine of customer-SKU-analysis:                  *)
(*   src/utils.py     field resolution, validation, unit conversion,       *)
(*                    calculate_quadrant                                   *)
(*   src/analyzer.py  DataAnalyzer: detect_fields, validate_fields,        *)
(*                    analyze and the stages analyze runs                  *)
(*                                                                         *)
(* Text.  A Python str is the sequence of its Unicode code points, so that *)
(* the substring tests of detect_field_type are computed, not assumed.     *)
(*                                                                         *)
(* Numbers.  A pandas cell is a float64 or an int64.  It is modelled as an *)
(* exact rational [k |-> "num", n, d] (d > 0, lowest terms) or one of the  *)
(* three IEEE specials NaN, PInf, NInf.  Within the bounds used here every *)
(* operand is a small integer or a small integer divided by 1000 or 10000, *)
(* and IEEE division is correctly rounded, so two float results compare    *)
(* exactly as the rationals they round; x.xx5 rounding ties do not arise.  *)
(* The sign of zero is not modelled.                                       *)
(***************************************************************************)
EXTENDS Integers, Sequences, FiniteSets, TLC

\* ------------------------------------------------------------------ bounds

\* the largest number of rows of an enumerated table
MaxRows == 3

\* the largest number of rows of a frame turned into records
MaxRecords == 2

\* the largest number of /analyze requests made for the uploaded file
MaxRequests == 2

\* the largest number of perform_analysis calls, and of those among them that fail
MaxCalls == 102
MaxFailures == 1

\* ------------------------------------------------------------------ numbers

Abs(i) == IF i < 0 THEN -i ELSE i

RECURSIVE GCD(_, _)
GCD(a, b) == IF b = 0 THEN a ELSE GCD(b, a % b)

NaN == [k |-> "nan", n |-> 0, d |-> 1]
PInf == [k |-> "inf", n |-> 1, d |-> 1]
NInf == [k |-> "inf", n |-> -1, d |-> 1]

\* the rational n/d (d # 0) in lowest terms with a positive denominator
Num(n, d) ==
  LET g == GCD(Abs(n), Abs(d))
      s == IF d < 0 THEN -1 ELSE 1
  IN  [k |-> "num", n |-> s * (n \div g), d |-> s * (d \div g)]

OfInt(i) == [k |-> "num", n |-> i, d |-> 1]

IsNaN(a) == a.k = "nan"
IsInf(a) == a.k = "inf"
IsNum(a) == a.k = "num"

\* -1, 0 or 1; not used on NaN
Sign(a) == IF a.n > 0 THEN 1 ELSE IF a.n < 0 THEN -1 ELSE 0

\* float addition
Add(a, b) ==
  IF IsNaN(a) \/ IsNaN(b) THEN NaN
  ELSE IF IsInf(a) /\ IsInf(b) THEN (IF a.n = b.n THEN a ELSE NaN)
  ELSE IF IsInf(a) THEN a
  ELSE IF IsInf(b) THEN b
  ELSE Num(a.n * b.d + b.n * a.d, a.d * b.d)

Neg(a) == IF IsNaN(a) THEN NaN ELSE [a EXCEPT !.n = -a.n]

Sub(a, b) == Add(a, Neg(b))

\* float multiplication
Mul(a, b) ==
  IF IsNaN(a) \/ IsNaN(b) THEN NaN
  ELSE IF IsInf(a) \/ IsInf(b)
       THEN (IF Sign(a) * Sign(b) = 0 THEN NaN
             ELSE IF Sign(a) * Sign(b) > 0 THEN PInf ELSE NInf)
  ELSE Num(a.n * b.n, a.d * b.d)

\* float division as numpy and pandas compute it: x/0 is +inf or -inf, 0/0 is NaN
Div(a, b) ==
  IF IsNaN(a) \/ IsNaN(b) THEN NaN
  ELSE IF IsInf(a) /\ IsInf(b) THEN NaN
  ELSE IF IsInf(a) THEN (IF Sign(a) * (IF b.n < 0 THEN -1 ELSE 1) > 0 THEN PInf ELSE NInf)
  ELSE IF IsInf(b) THEN OfInt(0)
  ELSE IF b.n = 0
       THEN (IF a.n = 0 THEN NaN ELSE IF a.n > 0 THEN PInf ELSE NInf)
  ELSE Num(a.n * b.d, a.d * b.n)

\* a < b on floats: every comparison with NaN is false
Lt(a, b) ==
  IF IsNaN(a) \/ IsNaN(b) THEN FALSE
  ELSE IF IsInf(a) THEN a.n < 0 /\ ~(IsInf(b) /\ b.n < 0)
  ELSE IF IsInf(b) THEN b.n > 0
  ELSE a.n * b.d < b.n * a.d

Eq(a, b) == ~IsNaN(a) /\ ~IsNaN(b) /\ a = b
Le(a, b) == Lt(a, b) \/ Eq(a, b)
Gt(a, b) == Lt(b, a)
Ge(a, b) == Le(b, a)

\* ------------------------------------------------------------------ text

\* s occurs in t (Python: s in t); the empty string occurs in every string
Substring(s, t) ==
  \E i \in 0..(Len(t) - Len(s)) : SubSeq(t, i + 1, i + Len(s)) = s

\* characters str.strip() removes and the regular expression \s matches
WhiteSpace == {9, 10, 11, 12, 13, 28, 29, 30, 31, 32, 133, 160, 5760, 8232, 8233, 8239, 8287, 12288} \cup (8192..8202)

RECURSIVE LStrip(_)
LStrip(s) == IF s # <<>> /\ Head(s) \in WhiteSpace THEN LStrip(Tail(s)) ELSE s

RECURSIVE RStrip(_)
RStrip(s) ==
  IF s # <<>> /\ s[Len(s)] \in WhiteSpace THEN RStrip(SubSeq(s, 1, Len(s) - 1)) ELSE s

\* str.strip()
Strip(s) == RStrip(LStrip(s))

\* re.sub(r'\s+', ' ', s): every run of whitespace becomes one space
RECURSIVE CollapseSpaces(_)
CollapseSpaces(s) ==
  IF s = <<>> THEN <<>>
  ELSE IF Head(s) \in WhiteSpace
       THEN <<32>> \o CollapseSpaces(LStrip(s))
       ELSE <<Head(s)>> \o CollapseSpaces(Tail(s))

clean_column_name(column_name) == CollapseSpaces(Strip(column_name))

\* the elements of a sequence
Range(s) == {s[i] : i \in DOMAIN s}

\* list.index(x), or none when x is not in the list (ValueError)
IndexOf(list, x, none) ==
  IF \E i \in DOMAIN list : list[i] = x
  THEN (CHOOSE i \in DOMAIN list : list[i] = x /\ \A j \in 1..(i - 1) : list[j] # x) - 1
  ELSE none

\* get_field_aliases(): <<role, alias list>> pairs in the order of the dict; each alias list
\* is in priority order
get_field_aliases ==
  << <<"product", <<<<83, 75, 85>>,
        <<29289, 26009, 21517, 31216>>,
        <<20135, 21697, 21517, 31216>>,
        <<23384, 36135, 21517, 31216>>,
        <<29289, 26009>>,
        <<21333, 21697>>,
        <<20135, 21697>>,
        <<21830, 21697>>,
        <<36135, 21697>>,
        <<21697, 21517>>,
        <<29289, 26009, 32534, 30721>>,
        <<20135, 21697, 32534, 30721>>,
        <<21830, 21697, 21517, 31216>>,
        <<36135, 29289, 21517, 31216>>,
        <<21697, 31181>>,
        <<20135, 21697, 22411, 21495>>,
        <<22411, 21495>>,
        <<35268, 26684>>>> >>,
     <<"customer", <<<<23458, 25143, 21517, 31216>>,
        <<23458, 25143>>,
        <<23458, 25143, 20840, 31216>>,
        <<23458, 25143, 31616, 31216>>,
        <<36141, 20080, 26041>>,
        <<20080, 26041>>,
        <<37319, 36141, 26041>>,
        <<23458, 25143, 20195, 30721>>,
        <<23458, 25143, 32534, 30721>>,
        <<23458, 25143, 73, 68>>,
        <<20080, 23478>>,
        <<25910, 36135, 26041>>,
        <<25910, 36135, 20154>>,
        <<32456, 31471, 23458, 25143>>,
        <<26368, 32456, 23458, 25143>>>> >>,
     <<"region", <<<<22320, 21306>>,
        <<21306, 22495>>,
        <<30465, 20221>>,
        <<22320, 22495>>,
        <<21306, 22495, 21517, 31216>>,
        <<30465, 24066>>,
        <<22478, 24066>>,
        <<30465>>,
        <<24066>>,
        <<22320, 21306, 21517, 31216>>,
        <<38144, 21806, 21306, 22495>>,
        <<37197, 36865, 21306, 22495>>>> >>,
     <<"quantity", <<<<25968, 37327>>,
        <<38144, 37327>>,
        <<38144, 21806, 25968, 37327>>,
        <<20986, 36135, 37327>>,
        <<21457, 36135, 37327>>,
        <<37325, 37327>>,
        <<20928, 37325>>,
        <<27611, 37325>>,
        <<21544, 25968>>,
        <<20214, 25968>>,
        <<31665, 25968>>,
        <<21253, 35013, 25968, 37327>>,
        <<21457, 36135, 25968, 37327>>,
        <<20986, 24211, 25968, 37327>>>> >>,
     <<"profit", <<<<27611, 21033>>,
        <<21033, 28070>>,
        <<27611, 21033, 28070>>,
        <<27611, 21033, 39069>>,
        <<21033, 28070, 39069>>,
        <<30408, 21033>>,
        <<27611, 21033, 37329, 39069>>,
        <<21033, 28070, 37329, 39069>>,
        <<27611, 21033, 36129, 29486>>,
        <<21033, 28070, 36129, 29486>>>> >>,
     <<"amount", <<<<37329, 39069>>,
        <<38144, 21806, 39069>>,
        <<21547, 31246, 37329, 39069>>,
        <<38144, 21806, 37329, 39069>>,
        <<24635, 37329, 39069>>,
        <<25104, 20132, 37329, 39069>>,
        <<20132, 26131, 37329, 39069>>,
        <<35746, 21333, 37329, 39069>>,
        <<21512, 21516, 37329, 39069>>,
        <<24320, 31080, 37329, 39069>>,
        <<25910, 20837>>,
        <<33829, 19994, 39069>>>> >>,
     <<"cost", <<<<25104, 26412>>,
        <<25104, 26412, 20215>>,
        <<37319, 36141, 25104, 26412>>,
        <<36827, 36135, 25104, 26412>>,
        <<21333, 20301, 25104, 26412>>,
        <<24635, 25104, 26412>>,
        <<25104, 26412, 37329, 39069>>>> >>,
     <<"sea_freight", <<<<28023, 36816, 36153>>,
        <<28023, 36816, 25104, 26412>>,
        <<28023, 36816, 36153, 29992>>,
        <<28023, 36816, 36816, 36153>>>> >>,
     <<"land_freight", <<<<38470, 36816, 36153>>,
        <<38470, 36816, 25104, 26412>>,
        <<38470, 36816, 36153, 29992>>,
        <<36816, 36153>>,
        <<36816, 36755, 36153>>,
        <<29289, 27969, 36153>>,
        <<37197, 36865, 36153>>>> >>,
     <<"agency_fee", <<<<20195, 21150, 36153>>,
        <<20195, 29702, 36153>>,
        <<26381, 21153, 36153>>,
        <<25163, 32493, 36153>>,
        <<20323, 37329>>,
        <<20419, 38144, 31649, 29702, 36153>>,
        <<20179, 20648, 36153>>>> >>,
     <<"unit_price", <<<<21333, 20215>>,
        <<20215, 26684>>,
        <<21806, 20215>>,
        <<21333, 20301, 20215, 26684>>,
        <<21547, 31246, 21333, 20215>>,
        <<19981, 21547, 31246, 21333, 20215>>>> >>,
     <<"category", <<<<29289, 26009, 22522, 26412, 20998, 31867>>,
        <<20998, 31867>>,
        <<31867, 21035>>,
        <<20135, 21697, 20998, 31867>>,
        <<21830, 21697, 20998, 31867>>,
        <<21697, 31867>>,
        <<20135, 21697, 31867, 22411>>,
        <<21830, 21697, 31867, 22411>>>> >> >>

\* detect_field_type: special_patterns, in the order of the dict
special_patterns ==
  << <<"product", <<<<21697>>,
        <<26009>>,
        <<115, 107, 117>>,
        <<83, 75, 85>>,
        <<29289, 26009>>,
        <<20135, 21697>>,
        <<21830, 21697>>,
        <<36135, 21697>>>> >>,
     <<"customer", <<<<23458>>,
        <<25143>>,
        <<20080>>,
        <<36141>>,
        <<25910, 36135>>>> >>,
     <<"region", <<<<22320>>,
        <<21306>>,
        <<30465>>,
        <<24066>>,
        <<22495>>>> >>,
     <<"quantity", <<<<37327>>,
        <<25968>>,
        <<37325>>,
        <<21544>>,
        <<20214>>,
        <<31665>>>> >>,
     <<"profit", <<<<21033>>,
        <<28070>>,
        <<30408>>>> >>,
     <<"amount", <<<<39069>>,
        <<37329>>,
        <<25910, 20837>>,
        <<33829, 19994>>>> >>,
     <<"cost", <<<<26412>>,
        <<20215>>,
        <<25104, 26412>>>> >>,
     <<"unit_price", <<<<20215>>,
        <<21333, 20215>>,
        <<20215, 26684>>>> >> >>

\* detect_field_type: loose_patterns, in the order of the dict
loose_patterns ==
  << <<"customer", <<<<23458, 25143>>,
        <<20080, 26041>>,
        <<36141, 20080>>,
        <<25910, 36135>>>> >>,
     <<"product", <<<<20135, 21697>>,
        <<21830, 21697>>,
        <<29289, 26009>>,
        <<36135, 21697>>>> >>,
     <<"region", <<<<22320, 21306>>,
        <<21306, 22495>>,
        <<30465, 20221>>>> >>,
     <<"amount", <<<<37329, 39069>>,
        <<38144, 21806>>,
        <<25910, 20837>>>> >>,
     <<"quantity", <<<<25968, 37327>>,
        <<38144, 37327>>,
        <<37325, 37327>>>> >>,
     <<"profit", <<<<27611, 21033>>,
        <<21033, 28070>>>> >> >>

\* the keys of one of the tables above, in order, and the list under a key
Keys(table) == [i \in DOMAIN table |-> table[i][1]]
ListOf(table, key) == table[CHOOSE i \in DOMAIN table : table[i][1] = key][2]

\* the key of the first entry of table, in order, one of whose strings satisfies Hit;
\* "unknown" when no entry has one
FirstRole(table, Hit(_)) ==
  LET hits == {i \in DOMAIN table : \E j \in DOMAIN table[i][2] : Hit(table[i][2][j])}
  IN  IF hits = {} THEN "unknown"
      ELSE table[CHOOSE i \in hits : \A j \in hits : i <= j][1]

\* variant of detect_field_type that tries the substring match before the exact match
detect_field_type_fuzzy_first(column_name) ==
  LET cleaned_name == clean_column_name(column_name)
      Exact(alias) == alias = cleaned_name
      Fuzzy(alias) == Substring(alias, cleaned_name) \/ Substring(cleaned_name, alias)
      Special(pattern) == Substring(pattern, cleaned_name)
      Loose(pattern) ==
        \/ Substring(pattern, cleaned_name)
        \/ \E i \in DOMAIN pattern : Substring(<<pattern[i]>>, cleaned_name)
      exact == FirstRole(get_field_aliases, Exact)
      fuzzy == FirstRole(get_field_aliases, Fuzzy)
      special == FirstRole(special_patterns, Special)
      loose == FirstRole(loose_patterns, Loose)
  IN  IF fuzzy # "unknown" THEN fuzzy
      ELSE IF exact # "unknown" THEN exact
      ELSE IF special # "unknown" THEN special
      ELSE loose

\* the field type when the four stages run in the order of the code
detect_field_type(column_name) ==
  LET cleaned_name == clean_column_name(column_name)
      Exact(alias) == alias = cleaned_name
      Fuzzy(alias) == Substring(alias, cleaned_name) \/ Substring(cleaned_name, alias)
      Special(pattern) == Substring(pattern, cleaned_name)
      Loose(pattern) ==
        \/ Substring(pattern, cleaned_name)
        \/ \E i \in DOMAIN pattern : Substring(<<pattern[i]>>, cleaned_name)
      exact == FirstRole(get_field_aliases, Exact)
      fuzzy == FirstRole(get_field_aliases, Fuzzy)
      special == FirstRole(special_patterns, Special)
      loose == FirstRole(loose_patterns, Loose)
  IN  IF exact # "unknown" THEN exact
      ELSE IF fuzzy # "unknown" THEN fuzzy
      ELSE IF special # "unknown" THEN special
      ELSE loose

\* DataAnalyzer.detect_fields, the loop over raw_data.columns from column i on:
\* a field type keeps the column that ranks first in its alias list
RECURSIVE detect_fields_from(_, _, _)
detect_fields_from(columns, i, detected) ==
  IF i > Len(columns) THEN detected
  ELSE
    LET column == columns[i]
        field_type == detect_field_type(column)
        current_priority == IndexOf(ListOf(get_field_aliases, field_type), detected[field_type], 999)
        new_priority == IndexOf(ListOf(get_field_aliases, field_type), column, 999)
        next ==
          IF field_type = "unknown" THEN detected
          ELSE IF field_type \notin DOMAIN detected THEN (field_type :> column) @@ detected
          ELSE IF new_priority < current_priority THEN [detected EXCEPT ![field_type] = column]
          ELSE detected
    IN  detect_fields_from(columns, i + 1, next)

\* the empty dict
EmptyDict == [x \in {} |-> <<>>]

\* the detected_fields of DataAnalyzer.detect_fields
detect_fields(columns) == detect_fields_from(columns, 1, EmptyDict)

\* truth value of a mapped header: the empty string is false
Truthy(header) == header # <<>>

\* variant of validate_required_fields that wants every value field, not one of them
validate_required_fields_all(detected_fields, analysis_type) ==
  LET value_fields == <<"quantity", "profit", "amount">>
      core_field == analysis_type
      core_missing ==
        IF core_field \notin DOMAIN detected_fields \/ ~Truthy(detected_fields[core_field])
        THEN <<core_field>> ELSE <<>>
  IN  core_missing \o SelectSeq(value_fields, LAMBDA field : field \notin DOMAIN detected_fields)

\* utils.validate_required_fields: the list of the missing roles
validate_required_fields(detected_fields, analysis_type) ==
  LET value_fields == <<"quantity", "profit", "amount">>
      core_field == analysis_type
      core_missing ==
        IF core_field \notin DOMAIN detected_fields \/ ~Truthy(detected_fields[core_field])
        THEN <<core_field>> ELSE <<>>
      has_value_field ==
        \E i \in DOMAIN value_fields :
          value_fields[i] \in DOMAIN detected_fields /\ Truthy(detected_fields[value_fields[i]])
      Unmapped(field) == field \notin DOMAIN detected_fields
  IN  core_missing \o (IF has_value_field THEN <<>> ELSE SelectSeq(value_fields, Unmapped))

\* DataAnalyzer.validate_fields
validate_fields(field_mapping, analysis_type) ==
  LET missing_fields == validate_required_fields(field_mapping, analysis_type)
  IN  [is_valid |-> Len(missing_fields) = 0, missing_fields |-> missing_fields]

\* ------------------------------------------------------------------ tables

\* A DataFrame is [columns |-> the column names, rows |-> the rows], a row being the
\* tuple of its cells in column order.  A cell of the grouping column is a name
\* (a string of KeyOrder); every other cell is a number, NaN when the cell is empty.

\* the names of the grouping column, in the lexicographic order groupby sorts them
KeyOrder == <<"A", "B", "C", "D", "E">>
KeyRank(key) == CHOOSE i \in DOMAIN KeyOrder : KeyOrder[i] = key

\* the columns the pipeline adds
TON_PROFIT == <<21544, 27611, 21033>>          \* '吨毛利'
TOTAL_COST == <<24635, 25104, 26412>>          \* '总成本'
COST_RATE == <<25104, 26412, 29575>>           \* '成本率'
QUADRANT == <<35937, 38480>>                   \* '象限'
CUM_PERCENT == <<32047, 35745, 21344, 27604>>  \* '累计占比'

\* the same sequence, as a tuple whose elements are computed once
Tuple(s) == s \o <<>>

\* name in df.columns
HasCol(df, name) == \E i \in DOMAIN df.columns : df.columns[i] = name

ColIdx(df, name) ==
  CHOOSE i \in DOMAIN df.columns :
    df.columns[i] = name /\ \A j \in 1..(i - 1) : df.columns[j] # name

\* df[name], as the sequence of its cells
Col(df, name) ==
  LET i == ColIdx(df, name)
  IN  Tuple([r \in DOMAIN df.rows |-> df.rows[r][i]])

\* df[name] = values: the column is replaced when it exists and appended otherwise
SetCol(df, name, values) ==
  LET cells == Tuple(values)
  IN  IF HasCol(df, name)
      THEN LET i == ColIdx(df, name)
           IN  [columns |-> df.columns,
                rows |-> Tuple([r \in DOMAIN df.rows |-> [df.rows[r] EXCEPT ![i] = cells[r]]])]
      ELSE [columns |-> Append(df.columns, name),
            rows |-> Tuple([r \in DOMAIN df.rows |-> Append(df.rows[r], cells[r])])]

\* Series.sum(): missing cells are skipped, the sum of no cell is 0
RECURSIVE SumSkipNa(_)
SumSkipNa(values) ==
  IF values = <<>> THEN OfInt(0)
  ELSE IF IsNaN(Head(values)) THEN SumSkipNa(Tail(values))
  ELSE Add(Head(values), SumSkipNa(Tail(values)))

\* Series.mean(): the sum of the cells that are not missing over their number
Mean(values) ==
  LET present == SelectSeq(values, LAMBDA v : ~IsNaN(v))
  IN  IF present = <<>> THEN NaN ELSE Div(SumSkipNa(present), OfInt(Len(present)))

\* Series.fillna(0)
FillNa0(v) == IF IsNaN(v) THEN OfInt(0) ELSE v

\* Series.clip(0, 10): NaN stays NaN
Clip(v) ==
  IF IsNaN(v) THEN v
  ELSE IF Lt(v, OfInt(0)) THEN OfInt(0)
  ELSE IF Gt(v, OfInt(10)) THEN OfInt(10)
  ELSE v

\* ------------------------------------------------------------------ units

\* utils.convert_units
convert_units(value, from_unit, to_unit) ==
  IF from_unit = "kg" /\ to_unit = "t" THEN Div(value, OfInt(1000))
  ELSE IF from_unit = "t" /\ to_unit = "kg" THEN Mul(value, OfInt(1000))
  ELSE IF from_unit = "yuan" /\ to_unit = "wan_yuan" THEN Div(value, OfInt(10000))
  ELSE IF from_unit = "wan_yuan" /\ to_unit = "yuan" THEN Mul(value, OfInt(10000))
  ELSE value

\* variant of ConvertColumn that converts a missing cell as if it were 0
ConvertColumn_filled(df, name, from_unit, to_unit) ==
  LET column == Col(df, name)
  IN  SetCol(df, name,
             [r \in DOMAIN column |-> convert_units(FillNa0(column[r]), from_unit, to_unit)])

\* column.apply(lambda x: convert_units(x, from_unit, to_unit) if pd.notna(x) else x)
ConvertColumn(df, name, from_unit, to_unit) ==
  LET column == Col(df, name)
  IN  SetCol(df, name,
             [r \in DOMAIN column |->
                IF IsNaN(column[r]) THEN column[r]
                ELSE convert_units(column[r], from_unit, to_unit)])

\* variant of FrameAfterCopy without the copy (converted_data = data): the conversions
\* are written into the frame passed in
FrameAfterCopy_shared(data, converted_data) == converted_data

\* converted_data = data.copy() in _apply_unit_conversions: the conversions are written
\* into the copy, and the frame passed in, self.raw_data, is after the call what it
\* was before
FrameAfterCopy(data, converted_data) == data

\* DataAnalyzer._apply_unit_conversions
_apply_unit_conversions(data, field_mapping, unit_confirmations) ==
  LET ConvertAmount(df, field) ==
        IF /\ field \in DOMAIN field_mapping
           /\ "amount" \in DOMAIN unit_confirmations
           /\ unit_confirmations["amount"] = "yuan"
        THEN ConvertColumn(df, field_mapping[field], "yuan", "wan_yuan")
        ELSE df
      d1 == IF /\ "quantity" \in DOMAIN field_mapping
               /\ "quantity" \in DOMAIN unit_confirmations
               /\ unit_confirmations["quantity"] = "kg"
            THEN ConvertColumn(data, field_mapping["quantity"], "kg", "t")
            ELSE data
      d2 == ConvertAmount(d1, "profit")
  IN  ConvertAmount(d2, "amount")

\* ------------------------------------------------------------------ derived metrics

cost_fields == <<"cost", "sea_freight", "land_freight", "agency_fee">>

\* (profit / quantity * 10000).fillna(0), cell by cell
TonProfit(profit, quantity) == FillNa0(Mul(Div(profit, quantity), OfInt(10000)))

\* variant of CostRate without the clip
CostRate_unclipped(total_cost, amount) ==
  LET replaced == IF Eq(amount, OfInt(0)) THEN NaN ELSE amount
  IN  FillNa0(Div(total_cost, replaced))

\* (total cost / amount.replace(0, nan)).fillna(0).clip(0, 10), cell by cell
CostRate(total_cost, amount) ==
  LET replaced == IF Eq(amount, OfInt(0)) THEN NaN ELSE amount
  IN  Clip(FillNa0(Div(total_cost, replaced)))

\* DataAnalyzer._calculate_derived_metrics
_calculate_derived_metrics(data, field_mapping) ==
  LET mapped_costs == SelectSeq(cost_fields, LAMBDA f : f \in DOMAIN field_mapping)
      cost_columns == [i \in DOMAIN mapped_costs |-> field_mapping[mapped_costs[i]]]
      d1 == IF "quantity" \in DOMAIN field_mapping /\ "profit" \in DOMAIN field_mapping
            THEN LET profit == Col(data, field_mapping["profit"])
                     quantity == Col(data, field_mapping["quantity"])
                 IN  SetCol(data, TON_PROFIT,
                            [r \in DOMAIN data.rows |-> TonProfit(profit[r], quantity[r])])
            ELSE data
      d2 == IF cost_columns # <<>>
            THEN LET costs == Tuple([i \in DOMAIN cost_columns |-> Col(d1, cost_columns[i])])
                 IN  SetCol(d1, TOTAL_COST,
                            [r \in DOMAIN d1.rows |->
                               SumSkipNa(Tuple([i \in DOMAIN costs |-> costs[i][r]]))])
            ELSE d1
  IN  IF cost_columns # <<>> /\ "amount" \in DOMAIN field_mapping
      THEN LET total_cost == Col(d2, TOTAL_COST)
               amount == Col(d2, field_mapping["amount"])
           IN  SetCol(d2, COST_RATE,
                      [r \in DOMAIN d2.rows |-> CostRate(total_cost[r], amount[r])])
      ELSE d2

\* ------------------------------------------------------------------ aggregation

\* the names in a set, as groupby orders them
RECURSIVE SortedKeys(_)
SortedKeys(keys) ==
  IF keys = {} THEN <<>>
  ELSE LET first == CHOOSE k \in keys : \A other \in keys : KeyRank(k) <= KeyRank(other)
       IN  <<first>> \o SortedKeys(keys \ {first})

\* list with name appended unless it is already in it (a dict has each key once)
AppendNew(list, name) == IF name \in Range(list) THEN list ELSE Append(list, name)

\* the keys of agg_rules, in insertion order
AggColumns(data, field_mapping) ==
  LET roles == <<"quantity", "profit", "amount">> \o cost_fields
      mapped == SelectSeq(roles, LAMBDA f : f \in DOMAIN field_mapping)
      RECURSIVE Build(_, _)
      Build(i, acc) ==
        IF i > Len(mapped) THEN acc
        ELSE Build(i + 1, AppendNew(acc, field_mapping[mapped[i]]))
      named == Build(1, <<>>)
  IN  IF HasCol(data, TOTAL_COST) THEN AppendNew(named, TOTAL_COST) ELSE named

\* data.groupby(group_column).agg(agg_rules).reset_index(): one row per name of the
\* grouping column, in sorted order, each aggregated column summed over the group
GroupSum(data, group_column, agg_columns) ==
  LET group == Col(data, group_column)
      keys == SortedKeys(Range(group))
      columns == Tuple([c \in DOMAIN agg_columns |-> Col(data, agg_columns[c])])
      SumOf(key, c) ==
        SumSkipNa(Tuple([r \in DOMAIN group |-> IF group[r] = key THEN columns[c][r] ELSE NaN]))
  IN  [columns |-> <<group_column>> \o agg_columns,
       rows |-> Tuple([e \in DOMAIN keys |->
                         <<keys[e]>> \o [c \in DOMAIN agg_columns |-> SumOf(keys[e], c)]])]

\* variant of _aggregate_data that derives first and averages after: the unit margin
\* and the cost rate of an entity are the means of its rows' values
_aggregate_data_averaged(data, field_mapping, analysis_type) ==
  LET group_column == field_mapping[analysis_type]
      aggregated == GroupSum(data, group_column, AggColumns(data, field_mapping))
      group == Col(data, group_column)
      Averaged(df, name) ==
        IF ~HasCol(data, name) THEN df
        ELSE LET cells == Col(data, name)
             IN  SetCol(df, name,
                        [e \in DOMAIN df.rows |->
                           Mean(Tuple([r \in DOMAIN group |->
                                         IF group[r] = df.rows[e][1] THEN cells[r] ELSE NaN]))])
  IN  Averaged(Averaged(aggregated, TON_PROFIT), COST_RATE)

\* DataAnalyzer._aggregate_data, for a mapped grouping field (it raises otherwise):
\* the derived metrics are computed again from the summed columns
_aggregate_data(data, field_mapping, analysis_type) ==
  LET group_column == field_mapping[analysis_type]
      aggregated == GroupSum(data, group_column, AggColumns(data, field_mapping))
      a1 == IF "quantity" \in DOMAIN field_mapping /\ "profit" \in DOMAIN field_mapping
            THEN LET profit == Col(aggregated, field_mapping["profit"])
                     quantity == Col(aggregated, field_mapping["quantity"])
                 IN  SetCol(aggregated, TON_PROFIT,
                            [e \in DOMAIN aggregated.rows |-> TonProfit(profit[e], quantity[e])])
            ELSE aggregated
  IN  IF HasCol(a1, TOTAL_COST) /\ "amount" \in DOMAIN field_mapping
      THEN LET total_cost == Col(a1, TOTAL_COST)
               amount == Col(a1, field_mapping["amount"])
           IN  SetCol(a1, COST_RATE,
                      [e \in DOMAIN a1.rows |-> CostRate(total_cost[e], amount[e])])
      ELSE a1

\* ------------------------------------------------------------------ quadrants

\* variant of calculate_quadrant that puts a value equal to its split point on the
\* low side
calculate_quadrant_strict(x_value, y_value, x_avg, y_avg) ==
  IF Gt(x_value, x_avg) /\ Gt(y_value, y_avg) THEN 1
  ELSE IF Le(x_value, x_avg) /\ Gt(y_value, y_avg) THEN 2
  ELSE IF Le(x_value, x_avg) /\ Le(y_value, y_avg) THEN 3
  ELSE 4

\* variant of calculate_quadrant that tests all four quadrants with strict comparisons
\* and leaves a point on a split line unassigned (0)
calculate_quadrant_open(x_value, y_value, x_avg, y_avg) ==
  IF Gt(x_value, x_avg) /\ Gt(y_value, y_avg) THEN 1
  ELSE IF Lt(x_value, x_avg) /\ Gt(y_value, y_avg) THEN 2
  ELSE IF Lt(x_value, x_avg) /\ Lt(y_value, y_avg) THEN 3
  ELSE IF Gt(x_value, x_avg) /\ Lt(y_value, y_avg) THEN 4
  ELSE 0

\* utils.calculate_quadrant
calculate_quadrant(x_value, y_value, x_avg, y_avg) ==
  IF Ge(x_value, x_avg) /\ Ge(y_value, y_avg) THEN 1
  ELSE IF Lt(x_value, x_avg) /\ Ge(y_value, y_avg) THEN 2
  ELSE IF Lt(x_value, x_avg) /\ Lt(y_value, y_avg) THEN 3
  ELSE 4

\* axis_config of _perform_quadrant_analysis; "ton_profit" stands for the derived
\* column '吨毛利', which is not a role of the field mapping
axis_config(analysis_type) ==
  IF analysis_type = "product"
  THEN [x_field |-> "quantity", y_field |-> "ton_profit"]
  ELSE [x_field |-> "amount", y_field |-> "profit"]

\* the result of a stage that raised
Raised(stage, error) == [ok |-> FALSE, stage |-> stage, error |-> error]

\* variant of QuadrantYAvg without the weighted branch
QuadrantYAvg_arithmetic(data, field_mapping, analysis_type, y_column) ==
  Mean(Col(data, y_column))

\* the Y split point of _perform_quadrant_analysis
QuadrantYAvg(data, field_mapping, analysis_type, y_column) ==
  IF analysis_type = "product" /\ axis_config(analysis_type).y_field = "ton_profit"
  THEN IF "profit" \in DOMAIN field_mapping /\ "quantity" \in DOMAIN field_mapping
       THEN LET total_profit == SumSkipNa(Col(data, field_mapping["profit"]))
                total_quantity == SumSkipNa(Col(data, field_mapping["quantity"]))
            IN  IF Gt(total_quantity, OfInt(0))
                THEN Mul(Div(total_profit, total_quantity), OfInt(10000))
                ELSE Mean(Col(data, y_column))
       ELSE Mean(Col(data, y_column))
  ELSE Mean(Col(data, y_column))

\* DataAnalyzer._perform_quadrant_analysis: [ok, data, ...]; data is the DataFrame it
\* was given with the columns '象限' and '象限名称' it writes into it.  A quadrant
\* name is written <<analysis_type, quadrant>>, the key of get_quadrant_info.  Of
\* quadrant_stats the count and the items (by name) are kept.
_perform_quadrant_analysis(data, field_mapping, analysis_type) ==
  LET config == axis_config(analysis_type)
      x_column == IF config.x_field = "ton_profit" THEN TON_PROFIT
                  ELSE field_mapping[config.x_field]
      y_column == IF config.y_field = "ton_profit" THEN TON_PROFIT
                  ELSE field_mapping[config.y_field]
      x_values == Col(data, x_column)
      y_values == Col(data, y_column)
      x_avg == Mean(x_values)
      y_avg == QuadrantYAvg(data, field_mapping, analysis_type, y_column)
      quadrants == Tuple([e \in DOMAIN data.rows |->
                            calculate_quadrant(x_values[e], y_values[e], x_avg, y_avg)])
      d1 == SetCol(data, QUADRANT, quadrants)
      d2 == SetCol(d1, <<35937, 38480, 21517, 31216>>,                    \* '象限名称'
                   [e \in DOMAIN d1.rows |-> <<analysis_type, quadrants[e]>>])
      written == Col(d2, QUADRANT)
      ItemsOf(quadrant) ==
        SelectSeq(Tuple([e \in DOMAIN d2.rows |-> e]), LAMBDA e : written[e] = quadrant)
  IN  IF config.x_field # "ton_profit" /\ config.x_field \notin DOMAIN field_mapping
      THEN Raised("quadrant", <<"missing X field", config.x_field>>)
      ELSE IF config.y_field # "ton_profit" /\ config.y_field \notin DOMAIN field_mapping
      THEN Raised("quadrant", <<"missing Y field", config.y_field>>)
      ELSE IF ~HasCol(data, x_column)
      THEN Raised("quadrant", <<"missing X column", x_column>>)
      ELSE IF ~HasCol(data, y_column)
      THEN Raised("quadrant", <<"missing Y column", y_column>>)
      ELSE [ok |-> TRUE,
            data |-> d2,
            x_avg |-> x_avg,
            y_avg |-> y_avg,
            total_count |-> Len(d2.rows),
            quadrant_stats |->
              [quadrant \in 1..4 |->
                 LET items == ItemsOf(quadrant)
                 IN  [count |-> Len(items),
                      items |-> Tuple([i \in DOMAIN items |-> d2.rows[items[i]][1]])]]]

\* ------------------------------------------------------------------ Pareto

\* Series.round(2): infinities and NaN are left as they are; RoundHalfEven is
\* round(n/d) for d > 0, ties to the even integer (numpy.rint)
Round2(v) ==
  LET RoundHalfEven(n, d) ==
        LET q == n \div d
            r == n % d
        IN  IF 2 * r < d THEN q
            ELSE IF 2 * r > d THEN q + 1
            ELSE IF q % 2 = 0 THEN q ELSE q + 1
  IN  IF IsNum(v) THEN Num(RoundHalfEven(v.n * 100, v.d), 100) ELSE v

\* variant of base_dimensions that offers every analysis type the three dimensions
base_dimensions_all(analysis_type) == <<"amount", "profit", "quantity">>

\* base_dimensions of _get_available_pareto_dimensions
base_dimensions(analysis_type) ==
  IF analysis_type = "product" THEN <<"profit", "quantity">>
  ELSE <<"amount", "profit", "quantity">>

\* DataAnalyzer._get_available_pareto_dimensions
_get_available_pareto_dimensions(field_mapping, analysis_type) ==
  SelectSeq(base_dimensions(analysis_type), LAMBDA dim : dim \in DOMAIN field_mapping)

\* default_dimension_map of _pareto_analysis
default_dimension_map(analysis_type) ==
  IF analysis_type = "product" THEN "profit" ELSE "amount"

\* the dimension _pareto_analysis ranks by; "None" is the absent argument
ParetoDimension(field_mapping, analysis_type, pareto_dimension) ==
  LET requested == IF pareto_dimension = "None" THEN default_dimension_map(analysis_type)
                   ELSE pareto_dimension
      available_dimensions == _get_available_pareto_dimensions(field_mapping, analysis_type)
  IN  IF requested \in Range(available_dimensions) THEN requested
      ELSE IF available_dimensions # <<>> THEN available_dimensions[1]
      ELSE "profit"

\* data.sort_values(column, ascending=False).reset_index(drop=True): rows of equal
\* value keep their order (the tables here are far below the size at which numpy's
\* quicksort stops being an insertion sort)
SortDescending(data, column) ==
  LET values == Col(data, column)
      n == Len(values)
      Place(r) == 1 + Cardinality({j \in 1..n : Gt(values[j], values[r])})
                    + Cardinality({j \in 1..(r - 1) : Eq(values[j], values[r])})
      place == Tuple([r \in 1..n |-> Place(r)])
  IN  [columns |-> data.columns,
       rows |-> Tuple([p \in 1..n |-> data.rows[CHOOSE r \in 1..n : place[r] = p]])]

\* Series.cumsum()
CumSum(values) == Tuple([i \in DOMAIN values |-> SumSkipNa(SubSeq(values, 1, i))])

\* variant of CoreItemsCount with < 80 in place of <= 80
CoreItemsCount_strict(percents) ==
  LET within == {i \in DOMAIN percents : Lt(percents[i], OfInt(80))}
      pareto_80_index == IF within = {} THEN 0
                         ELSE (CHOOSE i \in within : \A j \in within : j <= i) - 1
  IN  IF pareto_80_index + 1 <= Len(percents) THEN pareto_80_index + 1 ELSE Len(percents)

\* variant of CoreItemsCount that stops at the first rank whose cumulative percentage
\* is >= 80, every rank when there is none
CoreItemsCount_reaching(percents) ==
  LET reached == {i \in DOMAIN percents : Ge(percents[i], OfInt(80))}
  IN  IF reached = {} THEN Len(percents)
      ELSE CHOOSE i \in reached : \A j \in reached : i <= j

\* pareto_80_index and the rows of core_items: the last rank whose cumulative
\* percentage is <= 80, rank 0 when there is none; core_items = iloc[:index + 1]
CoreItemsCount(percents) ==
  LET within == {i \in DOMAIN percents : Le(percents[i], OfInt(80))}
      pareto_80_index == IF within = {} THEN 0
                         ELSE (CHOOSE i \in within : \A j \in within : j <= i) - 1
  IN  IF pareto_80_index + 1 <= Len(percents) THEN pareto_80_index + 1 ELSE Len(percents)

\* DataAnalyzer._pareto_analysis
_pareto_analysis(data, field_mapping, analysis_type, pareto_dimension) ==
  LET dimension == ParetoDimension(field_mapping, analysis_type, pareto_dimension)
      sort_column == field_mapping[dimension]
      sorted_data == SortDescending(data, sort_column)
      sorted_values == Col(sorted_data, sort_column)
      total_value == SumSkipNa(sorted_values)
      cumulative == CumSum(sorted_values)
      percents == Tuple([i \in DOMAIN cumulative |->
                           Round2(Mul(Div(cumulative[i], total_value), OfInt(100)))])
      d1 == SetCol(sorted_data, <<32047, 35745, 20540>>, cumulative)     \* '累计值'
      d2 == SetCol(d1, CUM_PERCENT, percents)
      core_items_count == CoreItemsCount(percents)
  IN  IF dimension \notin DOMAIN field_mapping
      THEN Raised("pareto", <<"missing field", dimension>>)
      ELSE [ok |-> TRUE,
            pareto_data |-> d2,
            core_items |-> [d2 EXCEPT !.rows = SubSeq(d2.rows, 1, core_items_count)],
            core_items_count |-> core_items_count,
            total_items |-> Len(d2.rows),
            dimension |-> dimension,
            available_dimensions |->
              _get_available_pareto_dimensions(field_mapping, analysis_type)]

\* ------------------------------------------------------------------ later stages

\* interval_configs of _distribution_analysis: the fields it requires
distribution_fields(analysis_type) ==
  IF analysis_type = "product"
  THEN [primary_field |-> "quantity", value_field |-> "amount"]
  ELSE [primary_field |-> "amount", value_field |-> "amount"]

\* DataAnalyzer._has_cost_data
_has_cost_data(data, field_mapping) ==
  \/ \E i \in DOMAIN cost_fields : cost_fields[i] \in DOMAIN field_mapping
  \/ HasCol(data, TOTAL_COST)
  \/ HasCol(data, <<24635, 25104, 26412, 40, 19975, 20803, 41>>)     \* '总成本(万元)'
  \/ HasCol(data, COST_RATE)

\* ------------------------------------------------------------------ distribution

INTERVAL == <<21306, 38388>>   \* '区间', the column _distribution_analysis adds

\* interval_configs of _distribution_analysis: the bin edges, float('inf') the last
interval_configs_intervals(analysis_type) ==
  IF analysis_type = "product"
  THEN <<OfInt(0), OfInt(5), OfInt(10), OfInt(20), OfInt(50), PInf>>
  ELSE IF analysis_type = "customer"
  THEN <<OfInt(0), OfInt(10), OfInt(50), OfInt(100), OfInt(500), PInf>>
  ELSE <<OfInt(0), OfInt(50), OfInt(200), OfInt(500), OfInt(1000), PInf>>

\* interval_configs of _distribution_analysis: the bin labels
interval_configs_labels(analysis_type) ==
  IF analysis_type = "product"
  THEN << <<60, 53, 21544>>, <<53, 45, 49, 48, 21544>>, <<49, 48, 45, 50, 48, 21544>>,
          <<50, 48, 45, 53, 48, 21544>>, <<62, 53, 48, 21544>> >>
  ELSE IF analysis_type = "customer"
  THEN << <<60, 49, 48, 19975>>, <<49, 48, 45, 53, 48, 19975>>,
          <<53, 48, 45, 49, 48, 48, 19975>>, <<49, 48, 48, 45, 53, 48, 48, 19975>>,
          <<62, 53, 48, 48, 19975>> >>
  ELSE << <<60, 53, 48, 19975>>, <<53, 48, 45, 50, 48, 48, 19975>>,
          <<50, 48, 48, 45, 53, 48, 48, 19975>>, <<53, 48, 48, 45, 49, 48, 48, 48, 19975>>,
          <<62, 49, 48, 48, 48, 19975>> >>

\* pd.cut(x, bins, labels, right=False) for one cell: a categorical cell with the
\* label of the bin [lo, hi) that holds x, found as numpy.searchsorted(bins, x,
\* side='right') finds it, by the number of bin edges <= x; a missing value and a
\* value no bin holds are missing in the result
CutCell(x, bins, labels) ==
  LET ids == Cardinality({i \in DOMAIN bins : Le(bins[i], x)})
  IN  IF IsNaN(x) \/ ids = 0 \/ ids = Len(bins) THEN NaN
      ELSE [k |-> "category", label |-> labels[ids]]

\* groupby(..., observed=False) 'count': for every label, empty bins included, the
\* number of cells in its bin
CountByLabel(cells, labels) ==
  [i \in DOMAIN labels |->
     Cardinality({r \in DOMAIN cells :
                    cells[r].k = "category" /\ cells[r].label = labels[i]})]

\* DataAnalyzer._distribution_analysis, for mapped primary and value fields (it
\* raises otherwise): the frame with its '区间' column, the item count of every bin
\* and total_count
_distribution_analysis(data, field_mapping, analysis_type) ==
  LET config == distribution_fields(analysis_type)
      intervals == interval_configs_intervals(analysis_type)
      labels == interval_configs_labels(analysis_type)
      primary == Col(data, field_mapping[config.primary_field])
      cells == Tuple([r \in DOMAIN primary |-> CutCell(primary[r], intervals, labels)])
      counts == Tuple(CountByLabel(cells, labels))
  IN  [data |-> SetCol(data, INTERVAL, cells),
       distribution_data |->
         Tuple([i \in DOMAIN labels |-> [interval |-> labels[i], count |-> counts[i]]]),
       total_count |-> Len(data.rows)]

\* ------------------------------------------------------------------ profit and loss

\* variant of _profit_loss_analysis that counts a zero criterion as neither
_profit_loss_analysis_strict(data, field_mapping, analysis_type) ==
  LET profit_criterion_column == IF analysis_type = "product" /\ HasCol(data, TON_PROFIT)
                                 THEN TON_PROFIT ELSE field_mapping["profit"]
      criterion == Col(data, profit_criterion_column)
      rows == Tuple([r \in DOMAIN data.rows |-> r])
      profitable == SelectSeq(rows, LAMBDA r : Gt(criterion[r], OfInt(0)))
      loss_making == SelectSeq(rows, LAMBDA r : Lt(criterion[r], OfInt(0)))
      profits == Col(data, field_mapping["profit"])
      total_profit == SumSkipNa([i \in DOMAIN profitable |-> profits[profitable[i]]])
      loss == SumSkipNa([i \in DOMAIN loss_making |-> profits[loss_making[i]]])
      total_loss == IF ~IsNaN(loss) /\ loss.n < 0 THEN Neg(loss) ELSE loss
  IN  [total_count |-> Len(data.rows),
       profitable_count |-> Len(profitable),
       loss_count |-> Len(loss_making),
       total_profit |-> Round2(total_profit),
       total_loss |-> Round2(total_loss),
       net_profit |-> Round2(Sub(total_profit, total_loss)),
       profitable_items |-> profitable,
       loss_making_items |-> loss_making]

\* DataAnalyzer._profit_loss_analysis, for a mapped profit field (it raises
\* otherwise): the counts and the totals of its summary and the rows of the two
\* item lists
_profit_loss_analysis(data, field_mapping, analysis_type) ==
  LET profit_criterion_column == IF analysis_type = "product" /\ HasCol(data, TON_PROFIT)
                                 THEN TON_PROFIT ELSE field_mapping["profit"]
      criterion == Col(data, profit_criterion_column)
      rows == Tuple([r \in DOMAIN data.rows |-> r])
      profitable == SelectSeq(rows, LAMBDA r : Gt(criterion[r], OfInt(0)))
      loss_making == SelectSeq(rows, LAMBDA r : Le(criterion[r], OfInt(0)))
      profits == Col(data, field_mapping["profit"])
      total_profit == SumSkipNa([i \in DOMAIN profitable |-> profits[profitable[i]]])
      loss == SumSkipNa([i \in DOMAIN loss_making |-> profits[loss_making[i]]])
      total_loss == IF ~IsNaN(loss) /\ loss.n < 0 THEN Neg(loss) ELSE loss
  IN  [total_count |-> Len(data.rows),
       profitable_count |-> Len(profitable),
       loss_count |-> Len(loss_making),
       total_profit |-> Round2(total_profit),
       total_loss |-> Round2(total_loss),
       net_profit |-> Round2(Sub(total_profit, total_loss)),
       profitable_items |-> profitable,
       loss_making_items |-> loss_making]

\* ------------------------------------------------------------------ contribution

\* f'{field}_contribution', as code points
ContributionColumn(field) ==
  (IF field = "quantity" THEN <<113, 117, 97, 110, 116, 105, 116, 121>>
   ELSE IF field = "profit" THEN <<112, 114, 111, 102, 105, 116>>
   ELSE <<97, 109, 111, 117, 110, 116>>)
    \o <<95, 99, 111, 110, 116, 114, 105, 98, 117, 116, 105, 111, 110>>

\* DataAnalyzer._contribution_analysis, as to the frame: for every mapped field a
\* '<field>_contribution' column, (value / total * 100).round(2)
RECURSIVE ContributionColumns(_, _, _)
ContributionColumns(data, field_mapping, fields) ==
  IF fields = <<>> THEN data
  ELSE IF Head(fields) \notin DOMAIN field_mapping
  THEN ContributionColumns(data, field_mapping, Tail(fields))
  ELSE LET cells == Col(data, field_mapping[Head(fields)])
           total_value == SumSkipNa(cells)
       IN  ContributionColumns(
             SetCol(data, ContributionColumn(Head(fields)),
                    [r \in DOMAIN cells |->
                       Round2(Mul(Div(cells[r], total_value), OfInt(100)))]),
             field_mapping, Tail(fields))

_contribution_analysis(data, field_mapping, analysis_type) ==
  ContributionColumns(data, field_mapping,
                      IF analysis_type = "product" THEN <<"quantity", "profit", "amount">>
                      ELSE <<"amount", "profit", "quantity">>)

\* ------------------------------------------------------------------ cost-rate distribution

\* the method names are '等频划分（推荐）', '等宽划分', '标准区间', '扩展区间', '简单划分'
\* and '默认划分'; the labels of the two-interval methods are '低成本率', '高成本率' and
\* '<50%', '≥50%'
RECOMMENDED == <<65288, 25512, 33616, 65289>>                   \* '（推荐）'
N_QUARTILE == <<31561, 39057, 21010, 20998>> \o RECOMMENDED     \* '等频划分（推荐）'

\* Series.dropna()
DropNa(values) == SelectSeq(values, LAMBDA v : ~IsNaN(v))

\* Series.min() and Series.max() of a series without missing values
SeriesMin(values) == CHOOSE v \in Range(values) : \A w \in Range(values) : Le(v, w)
SeriesMax(values) == CHOOSE v \in Range(values) : \A w \in Range(values) : Ge(v, w)

\* Python's max(a, b) and min(a, b)
PyMax(a, b) == IF Gt(b, a) THEN b ELSE a
PyMin(a, b) == IF Lt(b, a) THEN b ELSE a

\* sorted(list(set(values)))
SortedSet(values) ==
  LET S == Range(values)
  IN  Tuple([p \in 1..Cardinality(S) |->
               CHOOSE v \in S : Cardinality({w \in S : Lt(w, v)}) = p - 1])

\* sorted(values)
SortAscending(values) ==
  LET n == Len(values)
      Place(r) == 1 + Cardinality({j \in 1..n : Lt(values[j], values[r])})
                    + Cardinality({j \in 1..(r - 1) : Eq(values[j], values[r])})
      place == Tuple([r \in 1..n |-> Place(r)])
  IN  Tuple([p \in 1..n |-> values[CHOOSE r \in 1..n : place[r] = p]])

\* Series.quantile(num / den), linear interpolation between the two nearest ranks
Quantile(values, num, den) ==
  LET s == SortAscending(values)
      pos == (Len(s) - 1) * num
      lo == pos \div den
      rem == pos % den
  IN  IF rem = 0 THEN s[lo + 1]
      ELSE Add(s[lo + 1], Mul(Sub(s[lo + 2], s[lo + 1]), Num(rem, den)))

\* the decimal digits of a natural number, as code points
RECURSIVE IntCodes(_)
IntCodes(n) == IF n < 10 THEN <<48 + n>> ELSE IntCodes(n \div 10) \o <<48 + (n % 10)>>

\* str(int(x * 100)) for a finite x: int() truncates towards zero
PctCodes(x) ==
  IF x.n >= 0 THEN IntCodes((x.n * 100) \div x.d)
  ELSE IF (-x.n * 100) \div x.d = 0 THEN <<48>>
  ELSE <<45>> \o IntCodes((-x.n * 100) \div x.d)

\* variant of _validate_intervals that accepts every candidate
_validate_intervals_any(intervals) == TRUE

\* DataAnalyzer._validate_intervals
_validate_intervals(intervals) ==
  /\ \A i \in 2..Len(intervals) : ~Le(intervals[i], intervals[i - 1])
  /\ Len(intervals) >= 3
  /\ \A i \in DOMAIN intervals : IsNum(intervals[i])

\* DataAnalyzer._generate_interval_labels: 'a-b%' for every interval but the last,
\* '>a%' for the last
_generate_interval_labels(intervals) ==
  [i \in 1..(Len(intervals) - 1) |->
     IF i = Len(intervals) - 1
     THEN <<62>> \o PctCodes(intervals[i]) \o <<37>>
     ELSE PctCodes(intervals[i]) \o <<45>> \o PctCodes(intervals[i + 1]) \o <<37>>]

Strategy(method_name, intervals, labels, method_type) ==
  [method_name |-> method_name, intervals |-> Tuple(intervals),
   labels |-> Tuple(labels), method_type |-> method_type]

\* _calculate_dynamic_intervals, strategy 1: quartiles, when the range is >= 0.01
QuartileStrategy(cost_rates, min_rate, max_rate) ==
  IF Ge(Sub(max_rate, min_rate), Num(1, 100))
  THEN LET q25 == Quantile(cost_rates, 1, 4)
           q50 == Quantile(cost_rates, 2, 4)
           q75 == Quantile(cost_rates, 3, 4)
           configured(intervals) ==
             IF Len(intervals) >= 3 /\ _validate_intervals(intervals)
             THEN <<Strategy(N_QUARTILE, intervals, _generate_interval_labels(intervals),
                             "quartile")>>
             ELSE <<>>
       IN  configured(SortedSet(<<PyMax(OfInt(0), Sub(min_rate, Num(1, 1000))),
                                  q25, q50, q75,
                                  PyMin(OfInt(1), Add(max_rate, Num(1, 1000)))>>))
  ELSE <<>>

\* variant of EqualWidthStrategy that neither asks for a range nor validates
EqualWidthStrategy_unchecked(min_rate, max_rate) ==
  LET interval_width == Div(Sub(max_rate, min_rate), OfInt(5))
      intervals ==
        [i \in 1..6 |->
           IF i = 1 THEN PyMax(OfInt(0), Sub(min_rate, Num(1, 1000)))
           ELSE IF i = 6 THEN PyMin(OfInt(1), Add(max_rate, Num(1, 1000)))
           ELSE Add(min_rate, Mul(OfInt(i - 1), interval_width))]
  IN  <<Strategy(<<31561, 23485, 21010, 20998>>, intervals, _generate_interval_labels(intervals),
                 "equal_width")>>

\* _calculate_dynamic_intervals, strategy 2: five bands of equal width, when the
\* range is > 0
EqualWidthStrategy(min_rate, max_rate) ==
  IF Gt(Sub(max_rate, min_rate), OfInt(0))
  THEN LET interval_width == Div(Sub(max_rate, min_rate), OfInt(5))
           intervals ==
             [i \in 1..6 |->
                IF i = 1 THEN PyMax(OfInt(0), Sub(min_rate, Num(1, 1000)))
                ELSE IF i = 6 THEN PyMin(OfInt(1), Add(max_rate, Num(1, 1000)))
                ELSE Add(min_rate, Mul(OfInt(i - 1), interval_width))]
       IN  IF _validate_intervals(intervals)
           THEN <<Strategy(<<31561, 23485, 21010, 20998>>, intervals, _generate_interval_labels(intervals),
                           "equal_width")>>
           ELSE <<>>
  ELSE <<>>

\* _calculate_dynamic_intervals, strategy 3: the standard intervals for rates within
\* [0, 1], the extended intervals when a rate exceeds 1; labels as code points
FixedStrategy(min_rate, max_rate) ==
  IF Ge(min_rate, OfInt(0)) /\ Le(max_rate, OfInt(1))
  THEN <<Strategy(<<26631, 20934, 21306, 38388>>,
                  <<OfInt(0), Num(3, 10), Num(5, 10), Num(7, 10), Num(8, 10), OfInt(1)>>,
                  << <<60, 51, 48, 37>>, <<51, 48, 45, 53, 48, 37>>,
                     <<53, 48, 45, 55, 48, 37>>, <<55, 48, 45, 56, 48, 37>>,
                     <<62, 56, 48, 37>> >>,
                  "standard")>>
  ELSE IF Gt(max_rate, OfInt(1))
  THEN IF Le(max_rate, OfInt(2))
       THEN <<Strategy(<<25193, 23637, 21306, 38388>>,
                       <<OfInt(0), Num(1, 2), OfInt(1),
                         PyMax(Num(21, 10), Add(max_rate, Num(1, 10)))>>,
                       << <<60, 53, 48, 37>>, <<53, 48, 45, 49, 48, 48, 37>>,
                          <<62, 49, 48, 48, 37>> >>,
                       "extended")>>
       ELSE <<Strategy(<<25193, 23637, 21306, 38388>>,
                       <<OfInt(0), Num(1, 2), OfInt(1), OfInt(2),
                         PyMax(OfInt(10), Add(max_rate, Num(1, 10)))>>,
                       << <<60, 53, 48, 37>>, <<53, 48, 45, 49, 48, 48, 37>>,
                          <<49, 48, 48, 45, 50, 48, 48, 37>>, <<62, 50, 48, 48, 37>> >>,
                       "extended")>>
  ELSE <<>>

\* _calculate_dynamic_intervals, when no strategy was produced: two intervals that
\* meet at the midpoint of the range
SimpleStrategy(min_rate, max_rate) ==
  <<Strategy(<<31616, 21333, 21010, 20998>>,
             <<PyMax(OfInt(0), Sub(min_rate, Num(1, 1000))),
               Div(Add(min_rate, max_rate), OfInt(2)),
               Add(max_rate, Num(1, 1000))>>,
             <<<<20302, 25104, 26412, 29575>>, <<39640, 25104, 26412, 29575>>>>, "simple")>>

\* DataAnalyzer._calculate_dynamic_intervals on a series without missing values:
\* the strategies in the order of the dict it returns.  When the quartile strategy
\* is absent the first strategy is renamed '<name>（推荐）' and stays first.
_calculate_dynamic_intervals(cost_rates) ==
  LET min_rate == SeriesMin(cost_rates)
      max_rate == SeriesMax(cost_rates)
      \* the first strategy carries the recommended label
      recommending(intervals_config) ==
        IF intervals_config[1].method_name # N_QUARTILE
        THEN <<[intervals_config[1] EXCEPT
                  !.method_name = intervals_config[1].method_name \o RECOMMENDED]>>
               \o Tail(intervals_config)
        ELSE intervals_config
      \* if not intervals_config: the fallback
      completed(produced) ==
        recommending(IF produced = <<>> THEN SimpleStrategy(min_rate, max_rate)
                     ELSE produced)
  IN  completed(QuartileStrategy(cost_rates, min_rate, max_rate)
                  \o EqualWidthStrategy(min_rate, max_rate)
                  \o FixedStrategy(min_rate, max_rate))

\* pd.cut raises ValueError: the bin edges do not increase, the labels are not one
\* per bin, or two bins have the same label
CutRaises(bins, labels) ==
  \/ \E i \in 2..Len(bins) : ~Lt(bins[i - 1], bins[i])
  \/ Len(labels) # Len(bins) - 1
  \/ \E i, j \in DOMAIN labels : i < j /\ labels[i] = labels[j]

\* pd.cut(cost_rates, bins, labels, right=False, include_lowest=True) followed by
\* the counts of _calculate_interval_statistics: value_counts().sort_index() lists
\* every label, in the order of the bins, with the number of rates in its bin
IntervalCounts(cost_rates, bins, labels) ==
  LET cells == Tuple([r \in DOMAIN cost_rates |-> CutCell(cost_rates[r], bins, labels)])
      counts == Tuple(CountByLabel(cells, labels))
  IN  Tuple([i \in DOMAIN labels |-> [interval |-> labels[i], count |-> counts[i]]])

\* _cost_rate_distribution when no strategy could be cut: the '默认划分' method over
\* [0, 0.5, 1.0], or over the range when every rate is >= 0.5; an empty list when
\* that cut raises as well
DefaultDivision(cost_rates) ==
  LET min_rate == SeriesMin(cost_rates)
      max_rate == SeriesMax(cost_rates)
      default_intervals == <<OfInt(0), Num(1, 2), OfInt(1)>>
      default_labels == <<<<60, 53, 48, 37>>, <<8805, 53, 48, 37>>>>
      adjusted == Ge(min_rate, Num(1, 2))
      adjusted_intervals ==
        IF adjusted
        THEN <<PyMax(OfInt(0), Sub(min_rate, Num(1, 1000))),
               Div(Add(min_rate, max_rate), OfInt(2)),
               PyMin(OfInt(1), Add(max_rate, Num(1, 1000)))>>
        ELSE default_intervals
      adjusted_labels == IF adjusted THEN <<<<20302, 25104, 26412, 29575>>, <<39640, 25104, 26412, 29575>>>> ELSE default_labels
  IN  IF CutRaises(adjusted_intervals, adjusted_labels) THEN <<>>
      ELSE <<[method_name |-> <<40664, 35748, 21010, 20998>>,
              method_type |-> "default",
              distribution_data |->
                IntervalCounts(cost_rates, adjusted_intervals, adjusted_labels),
              intervals |-> default_intervals,
              labels |-> default_labels]>>

\* DataAnalyzer._cost_rate_distribution, as a function of data['成本率']: the
\* strategies computed, the methods built from those pd.cut accepts, and the
\* distribution at the top level, which is that of the first method
_cost_rate_distribution(column) ==
  LET cost_rates == DropNa(column)
  IN  IF cost_rates = <<>>
      THEN [intervals_config |-> <<>>, division_methods |-> <<>>,
            distribution_data |-> <<>>]
      ELSE LET \* the entry of division_methods for a strategy that could be cut
               method(config) ==
                 [method_name |-> config.method_name,
                  method_type |-> config.method_type,
                  distribution_data |->
                    IntervalCounts(cost_rates, config.intervals, config.labels),
                  intervals |-> config.intervals,
                  labels |-> config.labels]
               \* for method_name, config in intervals_config.items(), a strategy
               \* whose cut raises skipped
               methods(cut) == Tuple([i \in DOMAIN cut |-> method(cut[i])])
               result(intervals_config, division_methods) ==
                 [intervals_config |-> intervals_config,
                  division_methods |-> division_methods,
                  distribution_data |->
                    IF division_methods = <<>> THEN <<>>
                    ELSE division_methods[1].distribution_data]
               divided(intervals_config, produced) ==
                 result(intervals_config,
                        IF produced = <<>> THEN DefaultDivision(cost_rates) ELSE produced)
               distributed(intervals_config) ==
                 divided(intervals_config,
                         methods(SelectSeq(intervals_config,
                                           LAMBDA s : ~CutRaises(s.intervals, s.labels))))
           IN  distributed(_calculate_dynamic_intervals(cost_rates))

\* ------------------------------------------------------------------ sheets

\* column headers as they stand in the sheet
SKU == <<83, 75, 85>>                          \* 'SKU'
H_QUANTITY == <<25968, 37327>>                 \* '数量'
H_PROFIT == <<27611, 21033>>                   \* '毛利'
H_AMOUNT == <<37329, 39069>>                   \* '金额'
H_CUSTOMER == <<23458, 25143, 21517, 31216>>   \* '客户名称'
H_COST == <<25104, 26412>>                     \* '成本'
H_REMARK == <<22791, 27880>>                   \* '备注', a header no stage resolves

\* DataAnalyzer._load_data: the sheet as a DataFrame, every header stripped
LoadData(columns, rows) ==
  [columns |-> [i \in DOMAIN columns |-> Strip(columns[i])], rows |-> rows]

\* rank of a row among the rows of its layout: by name, then cell by cell
\* (an empty cell first); only used to list each table once
RECURSIVE RowRankFrom(_, _, _)
RowRankFrom(row, i, acc) ==
  IF i > Len(row) THEN acc
  ELSE RowRankFrom(row, i + 1, acc * 64 + (IF IsNaN(row[i]) THEN 0 ELSE row[i].n + 32))

RowRank(row) == RowRankFrom(row, 2, KeyRank(row[1]))

\* the tables of 1..MaxRows rows drawn from a set of rows.  No stage reads the order
\* of the rows (groupby sorts the names, a sum does not depend on the order), so each
\* table is listed once, its rows in rank order.
TablesOf(rows) ==
  UNION {{t \in [1..n -> rows] : \A i \in 1..(n - 1) : RowRank(t[i]) <= RowRank(t[i + 1])}
         : n \in 1..MaxRows}

Names == {"A", "B"}
Cells(values) == {OfInt(v) : v \in values}

\* the sheets analysed
Sheets ==
  LET
    \* product sheets: SKU, quantity, profit, amount; a row sells 0, 1 or 2 units at a
    \* loss or at a profit, or sells nothing and earns nothing
    ProductSheets ==
      {LoadData(<<SKU, H_QUANTITY, H_PROFIT, H_AMOUNT>>, t) :
         t \in TablesOf({<<name, q, p, a>> : name \in Names, q \in Cells({0, 1, 2}),
                                             p \in Cells({-1, 2}), a \in Cells({1})}
                        \cup {<<name, OfInt(0), OfInt(0), OfInt(1)>> : name \in Names})}

    \* customer sheets: customer, amount, profit
    CustomerSheets ==
      {LoadData(<<H_CUSTOMER, H_AMOUNT, H_PROFIT>>, t) :
         t \in TablesOf({<<name, a, p>> : name \in Names, a \in Cells({0, 1, 4}),
                                          p \in Cells({-1, 2})})}

    \* cost sheets: customer, amount (empty, negative, zero or positive), cost
    CostSheets ==
      {LoadData(<<H_CUSTOMER, H_AMOUNT, H_COST>>, t) :
         t \in TablesOf({<<name, a, c>> : name \in Names, a \in Cells({-1, 0, 1}) \cup {NaN},
                                          c \in Cells({-1, 6})})}

    \* customer sheets with returns: an amount of -1 or 12, profit 1
    ReturnSheets ==
      {LoadData(<<H_CUSTOMER, H_AMOUNT, H_PROFIT>>, t) :
         t \in TablesOf({<<name, a, OfInt(1)>> : name \in Names, a \in Cells({-1, 12})})}

    \* customer sheets with every column cost analysis reads: amount 1 or 2, profit 1,
    \* cost 1
    CostedSheets ==
      {LoadData(<<H_CUSTOMER, H_AMOUNT, H_PROFIT, H_COST>>, t) :
         t \in TablesOf({<<name, a, OfInt(1), OfInt(1)>> : name \in Names, a \in Cells({1, 2})})}

    \* sheets that lack the grouping header, a value header, or both; <<32>> is a
    \* header cell holding one space, <<22320, 21306>> is '地区'
    PartialSheets ==
      {LoadData(columns, <<[i \in DOMAIN columns |-> IF i = 1 THEN "A" ELSE OfInt(1)]>>) :
         columns \in {<<SKU>>, <<SKU, H_COST>>, <<H_REMARK, H_QUANTITY, H_PROFIT>>,
                      <<H_REMARK>>, <<<<32>>, H_QUANTITY>>, <<<<22320, 21306>>, H_AMOUNT, H_PROFIT>>,
                      <<H_CUSTOMER, H_REMARK, H_AMOUNT>>}}

    \* the two worked examples of the specification: three products with quantities
    \* 10, 20, 5 and profits 2, 8, -1; five customers with amounts 100, 80, 60, 40, 20
    ExampleSheets ==
      {LoadData(<<SKU, H_QUANTITY, H_PROFIT, H_AMOUNT>>,
                <<<<"A", OfInt(10), OfInt(2), OfInt(1)>>,
                  <<"B", OfInt(20), OfInt(8), OfInt(1)>>,
                  <<"C", OfInt(5), OfInt(-1), OfInt(1)>>>>),
       LoadData(<<H_CUSTOMER, H_AMOUNT, H_PROFIT>>,
                <<<<"A", OfInt(100), OfInt(1)>>,
                  <<"B", OfInt(80), OfInt(1)>>,
                  <<"C", OfInt(60), OfInt(1)>>,
                  <<"D", OfInt(40), OfInt(1)>>,
                  <<"E", OfInt(20), OfInt(1)>>>>)}
  IN  ProductSheets \cup CustomerSheets \cup CostSheets \cup ReturnSheets
        \cup CostedSheets \cup PartialSheets \cup ExampleSheets

\* ------------------------------------------------------------------ the analyzer

None == <<>>
Some(v) == <<v>>

VARIABLES
  raw_data,            \* self.raw_data
  field_mapping,       \* self.field_mapping
  unit_confirmations,  \* self.unit_confirmations
  processed_data,      \* self.processed_data: None or Some(DataFrame)
  call,                \* the arguments of the analyze call made on this analyzer, or None
  aggregated_data,     \* analyze's aggregated_data as the stages left it, or None
  quadrant_analysis,   \* what _perform_quadrant_analysis returned in that call, or None
  pareto_analysis,     \* what _pareto_analysis returned in that call, or None
  distribution_analysis,  \* what _distribution_analysis returned in that call, or None
  profit_loss_analysis,   \* what _profit_loss_analysis returned in that call, or None
  rate_distribution,   \* what _cost_rate_distribution computed when called, or None
  outcome,             \* how the call ended
  records,             \* what safe_to_dict returned when called, or None
  analysis_results,    \* app.analysis_results[file_id], the entry of one uploaded file
  requests,            \* the /analyze requests for that file: where each of them stands
  _analysis_history,   \* AnalysisService._analysis_history
  performed,           \* the perform_analysis calls made so far: TRUE for one that returned
  history              \* what get_analysis_history returned when it was the last call, or None

\* the state of one DataAnalyzer and of the analyze call made on it
analyzer == <<raw_data, field_mapping, unit_confirmations, processed_data, call,
              aggregated_data, quadrant_analysis, pareto_analysis, distribution_analysis,
              profit_loss_analysis, rate_distribution, outcome>>

\* the state outside the analyzer
outside == <<records, analysis_results, requests, _analysis_history, performed, history>>

vars == <<analyzer, outside>>

\* the entry app.upload_file makes for a file: file_info and nothing analysed
Uploaded ==
  [analysis_result |-> None, analysis_type |-> None, unit_confirmations |-> None,
   pareto_dimension |-> None]

\* DataAnalyzer.__init__, but for the sheet: nothing is detected or analysed yet; and
\* the application as it starts, with one file uploaded
Constructed ==
  /\ field_mapping = EmptyDict
  /\ unit_confirmations = EmptyDict
  /\ processed_data = None
  /\ call = None
  /\ quadrant_analysis = None
  /\ pareto_analysis = None
  /\ distribution_analysis = None
  /\ profit_loss_analysis = None
  /\ rate_distribution = None
  /\ outcome = [status |-> "none", stage |-> "none", error |-> <<>>]
  /\ records = None
  /\ analysis_results = Uploaded
  /\ requests = <<>>
  /\ _analysis_history = <<>>
  /\ performed = <<>>
  /\ history = None

\* DataAnalyzer.__init__: the sheet is loaded
Init == raw_data \in Sheets /\ aggregated_data = None /\ Constructed

\* DataAnalyzer.detect_fields()
DetectFields ==
  /\ field_mapping' = detect_fields(raw_data.columns)
  /\ UNCHANGED <<raw_data, unit_confirmations, processed_data, call, aggregated_data,
                 quadrant_analysis, pareto_analysis, distribution_analysis,
                 profit_loss_analysis, rate_distribution, outcome, outside>>

RaisedIn(stage, error) == [status |-> "raised", stage |-> stage, error |-> error]

\* DataAnalyzer._get_group_column(analysis_type): the column mapped to the role
\* of that name, else the first mapped one of product, customer, region, else the
\* first column of the sheet
_get_group_column(mapping, columns, analysis_type) ==
  IF analysis_type \in DOMAIN mapping THEN mapping[analysis_type]
  ELSE IF "product" \in DOMAIN mapping THEN mapping["product"]
  ELSE IF "customer" \in DOMAIN mapping THEN mapping["customer"]
  ELSE IF "region" \in DOMAIN mapping THEN mapping["region"]
  ELSE IF columns # <<>> THEN columns[1]
  ELSE <<117, 110, 107, 110, 111, 119, 110>>        \* 'unknown'

\* _cost_rate_distribution(data) as _cost_analysis calls it.  The drill-down of
\* _calculate_interval_statistics reads row[group_column] of every row of an
\* interval, a KeyError when the frame has no such column: it leaves the loop over
\* the strategies, which catches ValueError alone, and is caught in the default
\* division, which then returns no distribution and no method.
CostRateDistributionOf(data, mapping, columns) ==
  LET group_column == _get_group_column(mapping, columns, "product")
      looked_up(method) == \E i \in DOMAIN method.distribution_data :
                             method.distribution_data[i].count > 0
      completed(rate) ==
        IF HasCol(data, group_column) \/ \A i \in DOMAIN rate.division_methods :
                                           ~looked_up(rate.division_methods[i])
        THEN [raised |-> FALSE, value |-> rate]
        ELSE IF rate.division_methods[1].method_type = "default"
        THEN [raised |-> FALSE,
              value |-> [intervals_config |-> rate.intervals_config,
                         division_methods |-> <<>>, distribution_data |-> <<>>]]
        ELSE [raised |-> TRUE, value |-> <<"KeyError", group_column>>]
  IN  completed(_cost_rate_distribution(Col(data, COST_RATE)))

\* the stages of _perform_additional_analysis after _pareto_analysis, in the order
\* of the code: _distribution_analysis and _profit_loss_analysis raise on a missing
\* field, _contribution_analysis skips it, and with cost data _cost_analysis calls
\* _cost_rate_distribution when the frame has a cost-rate column.  Each stage works
\* on the frame as the stages before it left it.
LaterStages(data, mapping, columns, analysis_type) ==
  LET config == distribution_fields(analysis_type)
      Stopped(frame, stage, field, distribution) ==
        [outcome |-> RaisedIn(stage, <<"missing field", field>>), data |-> frame,
         distribution_analysis |-> distribution, profit_loss_analysis |-> None,
         rate_distribution |-> None]
  IN  IF config.primary_field \notin DOMAIN mapping
      THEN Stopped(data, "distribution", config.primary_field, None)
      ELSE IF config.value_field \notin DOMAIN mapping
      THEN Stopped(data, "distribution", config.value_field, None)
      ELSE LET distribution == _distribution_analysis(data, mapping, analysis_type)
               distribution_result ==
                 Some([distribution_data |-> distribution.distribution_data,
                       total_count |-> distribution.total_count])
           IN  IF "profit" \notin DOMAIN mapping
               THEN Stopped(distribution.data, "profit_loss", "profit", distribution_result)
               ELSE LET contributed ==
                          _contribution_analysis(distribution.data, mapping, analysis_type)
                        finished(ending, rates) ==
                          [outcome |-> ending,
                           data |-> contributed,
                           distribution_analysis |-> distribution_result,
                           profit_loss_analysis |->
                             Some(_profit_loss_analysis(distribution.data, mapping,
                                                        analysis_type)),
                           rate_distribution |-> rates]
                        returned == [status |-> "returned", stage |-> "return", error |-> <<>>]
                        costed(rate) ==
                          IF rate.raised THEN finished(RaisedIn("cost_analysis", rate.value), None)
                          ELSE finished(returned, Some(rate.value))
                    IN  IF _has_cost_data(contributed, mapping) /\ HasCol(contributed, COST_RATE)
                        THEN costed(CostRateDistributionOf(contributed, mapping, columns))
                        ELSE finished(returned, None)

\* DataAnalyzer.analyze.  The stages run in the order of the code and the first one
\* that raises ends the call; what an analysis returns is built anew by every call,
\* self.processed_data stays what the last call that reached it has set.
Analyze(analysis_type, confirmations, pareto_dimension) ==
  /\ call' = Some([analysis_type |-> analysis_type,
                   unit_confirmations |-> confirmations,
                   pareto_dimension |-> pareto_dimension])
  /\ unit_confirmations' = confirmations
  /\ field_mapping' = detect_fields(raw_data.columns)
  /\ UNCHANGED outside
  /\ \E mapping \in {detect_fields(raw_data.columns)} :
     \E field_validation \in {validate_fields(mapping, analysis_type)} :
       IF ~field_validation.is_valid
       THEN /\ outcome' = RaisedIn("validation",
                                   <<"missing fields", field_validation.missing_fields>>)
            /\ aggregated_data' = None
            /\ quadrant_analysis' = None
            /\ pareto_analysis' = None
            /\ distribution_analysis' = None
            /\ profit_loss_analysis' = None
            /\ rate_distribution' = None
            /\ UNCHANGED <<raw_data, processed_data>>
       ELSE \E converted \in {_apply_unit_conversions(raw_data, mapping, confirmations)} :
            \E processed \in {_calculate_derived_metrics(converted, mapping)} :
            \E aggregated \in {_aggregate_data(processed, mapping, analysis_type)} :
            \E quadrant \in {_perform_quadrant_analysis(aggregated, mapping, analysis_type)} :
            /\ raw_data' = FrameAfterCopy(raw_data, converted)
            /\ processed_data' = Some(processed)
            /\ IF ~quadrant.ok
                 THEN /\ outcome' = RaisedIn(quadrant.stage, quadrant.error)
                      /\ aggregated_data' = Some(aggregated)
                      /\ quadrant_analysis' = None
                      /\ pareto_analysis' = None
                      /\ distribution_analysis' = None
                      /\ profit_loss_analysis' = None
                      /\ rate_distribution' = None
                 ELSE \E pareto \in {_pareto_analysis(quadrant.data, mapping, analysis_type,
                                                      pareto_dimension)} :
                      /\ quadrant_analysis' = Some([x_avg |-> quadrant.x_avg,
                                                    y_avg |-> quadrant.y_avg,
                                                    total_count |-> quadrant.total_count,
                                                    quadrant_stats |-> quadrant.quadrant_stats])
                      /\ IF ~pareto.ok
                         THEN /\ outcome' = RaisedIn(pareto.stage, pareto.error)
                              /\ aggregated_data' = Some(quadrant.data)
                              /\ pareto_analysis' = None
                              /\ distribution_analysis' = None
                              /\ profit_loss_analysis' = None
                              /\ rate_distribution' = None
                         ELSE \E later \in {LaterStages(quadrant.data, mapping, raw_data.columns,
                                                           analysis_type)} :
                              /\ pareto_analysis' = Some(pareto)
                              /\ aggregated_data' = Some(later.data)
                              /\ distribution_analysis' = later.distribution_analysis
                              /\ profit_loss_analysis' = later.profit_loss_analysis
                              /\ rate_distribution' = later.rate_distribution
                              /\ outcome' = later.outcome

Next ==
  \/ DetectFields
  \/ \E analysis_type \in {"product", "customer", "region"},
        confirmations \in {EmptyDict, ("quantity" :> "kg") @@ ("amount" :> "yuan")},
        pareto_dimension \in {"None", "quantity"} :
       call = None /\ Analyze(analysis_type, confirmations, pareto_dimension)

Spec == Init /\ [][Next]_vars

\* ------------------------------------------------------------------ headers alone

MaxColumns == 3

H_FREIGHT == <<36816, 36153>>                     \* '运费', a land-freight alias inside a sea-freight alias
H_NET_PROFIT == <<20928, 21033>>                  \* '净利', no alias, the keyword '利'

\* an analyzer on which only detect_fields is called, on a one-row sheet with
\* 1..MaxColumns different headers, in every order, of: 'SKU', '数量', '重量' (the
\* sixth quantity alias), '销量(吨)' (holds the second quantity alias), '产品分类' (a
\* category alias that holds a product alias), '运费', '净利', '客户产品' (holds a
\* product and a customer alias), '备注'
HeaderInit ==
  LET pool == {SKU, H_QUANTITY, <<37325, 37327>>, <<38144, 37327, 40, 21544, 41>>,
               <<20135, 21697, 20998, 31867>>, H_FREIGHT, H_NET_PROFIT,
               <<23458, 25143, 20135, 21697>>, H_REMARK}
  IN  /\ raw_data \in
           UNION {{LoadData(columns, <<[c \in 1..n |-> OfInt(1)]>>) :
                     columns \in {h \in [1..n -> pool] :
                                    \A i, j \in 1..n : i # j => h[i] # h[j]}}
                  : n \in 1..MaxColumns}
      /\ aggregated_data = None
      /\ Constructed

HeaderSpec == HeaderInit /\ [][DetectFields]_vars


\* ------------------------------------------------------------------ units in every state

\* analyze under every unit_confirmations the upload form can send: each of quantity
\* and amount absent or one of its two units
UnitNext ==
  \E analysis_type \in {"product", "customer"},
     confirmations \in {[key \in keys |-> IF key = "quantity" THEN units[1] ELSE units[2]] :
                          keys \in SUBSET {"quantity", "amount"},
                          units \in {"kg", "t"} \X {"yuan", "wan_yuan"}} :
    call = None /\ Analyze(analysis_type, confirmations, "None")

\* an analyzer on a sheet in other units: product sheets in kilograms and yuan with
\* empty cells (SKU, quantity, profit, amount, cost) and customer sheets without a
\* quantity column
UnitInit ==
  /\ raw_data \in
       {LoadData(<<SKU, H_QUANTITY, H_PROFIT, H_AMOUNT, H_COST>>, t) :
          t \in TablesOf({<<"A", q, p, a, OfInt(7)>> : q \in {NaN, OfInt(1000)},
                                                       p \in {NaN, OfInt(-10000)},
                                                       a \in {NaN, OfInt(20000)}})}
       \cup {LoadData(<<H_CUSTOMER, H_AMOUNT, H_PROFIT>>, t) :
               t \in TablesOf({<<"A", a, OfInt(-10000)>> : a \in {NaN, OfInt(20000)}})}
  /\ aggregated_data = None
  /\ Constructed

UnitSpec == UnitInit /\ [][UnitNext]_vars

\* ------------------------------------------------------------------ one analyzer, many calls

\* detect_fields and analyze called on one analyzer any number of times, in any order
\* and with any of the Pareto dimensions a request can name
RequestNext ==
  \/ DetectFields
  \/ \E analysis_type \in {"product", "customer"},
        confirmations \in {EmptyDict, ("quantity" :> "kg") @@ ("amount" :> "yuan")},
        pareto_dimension \in {"None", "profit", "amount", "quantity"} :
       Analyze(analysis_type, confirmations, pareto_dimension)

\* an analyzer on a sheet of sales records in kilograms and yuan that has a product and
\* a customer column (SKU, customer, quantity, profit, amount, cost): one record, or the
\* record (A, A, 1000, 20000, 20000, 7) and a second one; a record is a sale or a
\* return (quantity -1000), at a profit or at a loss.  And on a customer sheet without
\* quantity and cost.
RequestInit ==
  LET sales(names) ==
        {<<sku, customer, OfInt(q), OfInt(p), OfInt(20000), OfInt(7)>> :
           sku \in names, customer \in names, q \in {-1000, 1000}, p \in {-10000, 20000}}
  IN  /\ raw_data \in
           {LoadData(<<SKU, H_CUSTOMER, H_QUANTITY, H_PROFIT, H_AMOUNT, H_COST>>, <<r>>) :
              r \in sales({"A"})}
           \cup {LoadData(<<SKU, H_CUSTOMER, H_QUANTITY, H_PROFIT, H_AMOUNT, H_COST>>,
                          <<<<"A", "A", OfInt(1000), OfInt(20000), OfInt(20000), OfInt(7)>>, r>>) :
                   r \in sales(Names)}
           \cup {LoadData(<<H_CUSTOMER, H_AMOUNT, H_PROFIT>>, <<<<"A", OfInt(20000), OfInt(p)>>>>) :
                   p \in {-10000, 20000}}
      /\ aggregated_data = None
      /\ Constructed

RequestSpec == RequestInit /\ [][RequestNext]_vars

\* ------------------------------------------------------------------ records

\* variant of safe_to_dict that replaces NaN alone
safe_to_dict_nan(df) ==
  LET replaced(value) == IF IsNaN(value) THEN None ELSE Some(value)
      last(key) == CHOOSE i \in DOMAIN df.columns :
                     df.columns[i] = key /\ \A j \in DOMAIN df.columns :
                                              df.columns[j] = key => j <= i
      cleaned(value) == IF value # None /\ IsNaN(value[1]) THEN None ELSE value
  IN  [r \in DOMAIN df.rows |->
         [key \in Range(df.columns) |-> cleaned(replaced(df.rows[r][last(key)]))]]

\* utils.safe_to_dict on a frame of float64 columns.  A value of a record is None
\* or Some(number).  df.replace turns NaN, inf and -inf into None; to_dict('records')
\* makes one dict per row, keyed by the column names (of two columns with one name
\* the later one is kept); the loop over the records turns what pd.isna holds for
\* into None and keeps a Python float.
safe_to_dict(df) ==
  LET replaced(value) == IF IsNaN(value) \/ IsInf(value) THEN None ELSE Some(value)
      last(key) == CHOOSE i \in DOMAIN df.columns :
                     df.columns[i] = key /\ \A j \in DOMAIN df.columns :
                                              df.columns[j] = key => j <= i
      cleaned(value) == IF value # None /\ IsNaN(value[1]) THEN None ELSE value
  IN  [r \in DOMAIN df.rows |->
         [key \in Range(df.columns) |-> cleaned(replaced(df.rows[r][last(key)]))]]

\* safe_to_dict(df) called on the frame
SafeToDict ==
  /\ records = None
  /\ records' = Some(safe_to_dict(raw_data))
  /\ UNCHANGED <<analyzer, analysis_results, requests, _analysis_history, performed,
                 history>>

\* a frame of two float64 columns, 'a' and 'b', and of 0..MaxRecords rows; a cell is
\* 1, 5/2, NaN, inf or -inf
RecordsInit ==
  /\ raw_data \in UNION {[columns : {<<<<97>>, <<98>>>>},
                          rows : [1..n -> [1..2 -> {OfInt(1), Num(5, 2), NaN, PInf, NInf}]]]
                         : n \in 0..MaxRecords}
  /\ aggregated_data = None
  /\ Constructed

RecordsSpec == RecordsInit /\ [][SafeToDict]_vars

\* ------------------------------------------------------------------ the application

\* the application and the service as they start: one file is uploaded, nothing is
\* analysed, no request is made
ServerInit ==
  /\ raw_data = LoadData(<<SKU, H_QUANTITY, H_PROFIT>>, <<<<"A", OfInt(1), OfInt(1)>>>>)
  /\ aggregated_data = None
  /\ Constructed

\* app.analyze_data, thread by thread.  A request is received with its arguments
\* (file_id, sheet_name and analysis_type are there, file_id is in analysis_results);
\* its thread builds a DataAnalyzer of its own and calls analyze, which returns a
\* result (written here as the arguments it was computed from) or raises, answered
\* with 500; then it stores the result and the three arguments in
\* analysis_results[file_id], one assignment after the other, and responds.  Flask
\* serves every request in a thread of its own, so the threads of two requests take
\* their steps in any order.
AnalyzeData ==
  /\ UNCHANGED <<analyzer, records, _analysis_history, performed, history>>
  /\ \/ /\ Len(requests) < MaxRequests
        /\ \E analysis_type \in {"product", "customer"}, pareto_dimension \in {"None", "profit"},
              confirmations \in {EmptyDict, "amount" :> "yuan"} :
             requests' = Append(requests, [analysis_type |-> analysis_type,
                                           unit_confirmations |-> confirmations,
                                           pareto_dimension |-> pareto_dimension,
                                           at |-> "received"])
        /\ UNCHANGED analysis_results
     \/ \E r \in DOMAIN requests :
          LET data == requests[r]
              result == [analysis_type |-> data.analysis_type,
                         unit_confirmations |-> data.unit_confirmations,
                         pareto_dimension |-> data.pareto_dimension]
              Step(from, to) == /\ data.at = from
                                /\ requests' = [requests EXCEPT ![r].at = to]
          IN  \/ /\ Step("received", "analysed")
                 /\ UNCHANGED analysis_results
              \/ /\ Step("received", "responded")
                 /\ UNCHANGED analysis_results
              \/ /\ Step("analysed", "result stored")
                 /\ analysis_results' =
                      [analysis_results EXCEPT !.analysis_result = Some(result)]
              \/ /\ Step("result stored", "type stored")
                 /\ analysis_results' =
                      [analysis_results EXCEPT !.analysis_type = Some(data.analysis_type)]
              \/ /\ Step("type stored", "units stored")
                 /\ analysis_results' =
                      [analysis_results EXCEPT
                         !.unit_confirmations = Some(data.unit_confirmations)]
              \/ /\ Step("units stored", "responded")
                 /\ analysis_results' =
                      [analysis_results EXCEPT
                         !.pareto_dimension = Some(data.pareto_dimension)]

AppSpec == ServerInit /\ [][AnalyzeData]_vars

\* ------------------------------------------------------------------ the analysis service

\* AnalysisService.perform_analysis.  The call either raises (an analysis type that
\* is not supported, or an exception of the analysis, re-raised as AnalysisError)
\* and records nothing, or returns, and _record_analysis_history has appended an
\* entry, written here as the number of the call, and kept the last 100 entries
\* when there were more.
PerformAnalysis ==
  /\ Len(performed) < MaxCalls
  /\ history' = None
  /\ UNCHANGED <<analyzer, records, analysis_results, requests>>
  /\ \/ /\ Cardinality({i \in DOMAIN performed : ~performed[i]}) < MaxFailures
        /\ performed' = Append(performed, FALSE)
        /\ UNCHANGED _analysis_history
     \/ /\ performed' = Append(performed, TRUE)
        /\ \E appended \in {Append(_analysis_history, Len(performed) + 1)} :
             _analysis_history' =
               IF Len(appended) > 100
               THEN SubSeq(appended, Len(appended) - 99, Len(appended))
               ELSE appended

\* AnalysisService.get_analysis_history(limit): self._analysis_history[-limit:][::-1].
\* The slice starts at index -limit, counted from the end when negative and held
\* at the first entry, and at the first entry when it is 0; [::-1] reverses.
GetAnalysisHistory(limit) ==
  /\ \E sliced \in {LET n == Len(_analysis_history)
                         start == 0 - limit
                         first == IF start < 0 THEN (IF n + start < 0 THEN 0 ELSE n + start)
                                  ELSE (IF start > n THEN n ELSE start)
                     IN  SubSeq(_analysis_history, first + 1, n)} :
       history' = Some([limit |-> limit,
                        entries |-> [i \in DOMAIN sliced |-> sliced[Len(sliced) + 1 - i]]])
  /\ UNCHANGED <<analyzer, records, analysis_results, requests, _analysis_history,
                 performed>>

ServiceNext ==
  \/ PerformAnalysis
  \/ \E limit \in {0, 1, 101} : GetAnalysisHistory(limit)

ServiceSpec == ServerInit /\ [][ServiceNext]_vars

\* ------------------------------------------------------------------ cost rates alone

\* DataAnalyzer._cost_rate_distribution(data), called on the aggregated frame
CostRateDistribution ==
  /\ aggregated_data # None
  /\ rate_distribution = None
  /\ rate_distribution' = Some(_cost_rate_distribution(Col(aggregated_data[1], COST_RATE)))
  /\ UNCHANGED <<raw_data, field_mapping, unit_confirmations, processed_data, call,
                 aggregated_data, quadrant_analysis, pareto_analysis,
                 distribution_analysis, profit_loss_analysis, outcome, outside>>

\* an analyzer on which analyze was not called, and an aggregated frame for
\* _cost_rate_distribution: 1..MaxRows customers with a cost-rate column; the rates:
\* none of the amount spent, half, a little over half, all of it, and more than the
\* amount (_calculate_derived_metrics clips a rate to [0, 10])
RateInit ==
  LET rates == {OfInt(0), Num(1, 2), Num(501, 1000), OfInt(1), Num(3, 2), OfInt(3)}
  IN  /\ aggregated_data \in
           UNION {{Some([columns |-> <<H_CUSTOMER, COST_RATE>>,
                         rows |-> [e \in 1..n |-> <<KeyOrder[e], t[e]>>]]) :
                     t \in [1..n -> rates]}
                  : n \in 1..MaxRows}
      /\ raw_data = aggregated_data[1]
      /\ Constructed

RateSpec == RateInit /\ [][CostRateDistribution]_vars

\* ------------------------------------------------------------------ what a call left

\* the analysis type of the call that was made
AnalysisType == call[1].analysis_type

\* the DataFrame analyze handed to the stages after _aggregate_data
Entities == aggregated_data[1]

\* the columns _perform_quadrant_analysis reads as X and as Y
XColumn ==
  IF AnalysisType = "product" THEN field_mapping["quantity"] ELSE field_mapping["amount"]
YColumn ==
  IF AnalysisType = "product" THEN TON_PROFIT ELSE field_mapping["profit"]

\* the sum of a column over the rows of data whose grouping cell is key
GroupTotal(data, group_column, key, column) ==
  LET group == Col(data, group_column)
      cells == Col(data, column)
      members == SelectSeq(Tuple([r \in DOMAIN group |-> r]), LAMBDA r : group[r] = key)
  IN  SumSkipNa(Tuple([m \in DOMAIN members |-> cells[members[m]]]))

\* the mean of a column over the rows of data whose grouping cell is key
GroupMean(data, group_column, key, column) ==
  LET group == Col(data, group_column)
      cells == Col(data, column)
      members == SelectSeq(Tuple([r \in DOMAIN group |-> r]), LAMBDA r : group[r] = key)
  IN  Mean(Tuple([m \in DOMAIN members |-> cells[members[m]]]))

\* the product sheet of the specification's worked example
ExampleProducts ==
  LoadData(<<SKU, H_QUANTITY, H_PROFIT, H_AMOUNT>>,
           <<<<"A", OfInt(10), OfInt(2), OfInt(1)>>,
             <<"B", OfInt(20), OfInt(8), OfInt(1)>>,
             <<"C", OfInt(5), OfInt(-1), OfInt(1)>>>>)

\* ------------------------------------------------------------------ quadrants: C1 - C3

\* C1: wherever quadrant analysis ran, every entity whose X, Y and split points are
\* numbers has quadrant 1 iff X >= splitX and Y >= splitY, 2 iff X < splitX and
\* Y >= splitY, 3 iff X < splitX and Y < splitY, 4 iff X >= splitX and Y < splitY;
\* a value equal to its split point is on the high side.
C1_QuadrantRule ==
  quadrant_analysis # None =>
    LET x == Col(Entities, XColumn)
        y == Col(Entities, YColumn)
        quadrant == Col(Entities, QUADRANT)
        splitX == quadrant_analysis[1].x_avg
        splitY == quadrant_analysis[1].y_avg
    IN  \A e \in DOMAIN quadrant :
          (~IsNaN(x[e]) /\ ~IsNaN(y[e]) /\ ~IsNaN(splitX) /\ ~IsNaN(splitY)) =>
            /\ (quadrant[e] = 1) <=> (Ge(x[e], splitX) /\ Ge(y[e], splitY))
            /\ (quadrant[e] = 2) <=> (Lt(x[e], splitX) /\ Ge(y[e], splitY))
            /\ (quadrant[e] = 3) <=> (Lt(x[e], splitX) /\ Lt(y[e], splitY))
            /\ (quadrant[e] = 4) <=> (Ge(x[e], splitX) /\ Lt(y[e], splitY))

\* an entity whose X is exactly the X split point and whose Y is below the Y split
\* point was placed in quadrant 4, beside an entity placed in quadrant 1
C1_Witness ==
  /\ quadrant_analysis # None
  /\ LET x == Col(Entities, XColumn)
         y == Col(Entities, YColumn)
         quadrant == Col(Entities, QUADRANT)
         splitX == quadrant_analysis[1].x_avg
         splitY == quadrant_analysis[1].y_avg
     IN  /\ \E e \in DOMAIN quadrant :
              Eq(x[e], splitX) /\ Lt(y[e], splitY) /\ quadrant[e] = 4
         /\ \E e \in DOMAIN quadrant : quadrant[e] = 1

\* C2: wherever quadrant analysis ran, every aggregated entity has one quadrant id, in
\* {1,2,3,4}, it is listed under that quadrant and no other, and the four counts of
\* quadrant_stats add up to the number of aggregated entities.
C2_OneQuadrantEach ==
  quadrant_analysis # None =>
    LET quadrant == Col(Entities, QUADRANT)
        stats == quadrant_analysis[1].quadrant_stats
    IN  /\ \A e \in DOMAIN quadrant : quadrant[e] \in 1..4
        /\ \A e \in DOMAIN quadrant : \A q \in 1..4 :
             (Entities.rows[e][1] \in Range(stats[q].items)) <=> (quadrant[e] = q)
        /\ \A q \in 1..4 : stats[q].count = Len(stats[q].items)
        /\ stats[1].count + stats[2].count + stats[3].count + stats[4].count
             = Len(Entities.rows)
        /\ quadrant_analysis[1].total_count = Len(Entities.rows)

\* three entities were spread over two quadrants or more, one of them on a split line
C2_Witness ==
  /\ quadrant_analysis # None
  /\ Len(Entities.rows) >= 3
  /\ LET quadrant == Col(Entities, QUADRANT)
         x == Col(Entities, XColumn)
     IN  /\ \E e, f \in DOMAIN quadrant : quadrant[e] # quadrant[f]
         /\ \E e \in DOMAIN quadrant : Eq(x[e], quadrant_analysis[1].x_avg)

\* C3 as stated: in product analysis the Y split point is always
\* sum(profit) / sum(quantity) * 10000 over the aggregated entities, the X split point
\* is the arithmetic mean of their quantities, and in the worked example the entity
\* with quantity 20 is in quadrant 1.
C3_AlwaysWeightedMean ==
  (quadrant_analysis # None /\ AnalysisType = "product") =>
    LET profit == Col(Entities, field_mapping["profit"])
        quantity == Col(Entities, field_mapping["quantity"])
        weighted == Mul(Div(SumSkipNa(profit), SumSkipNa(quantity)), OfInt(10000))
    IN  /\ Eq(quadrant_analysis[1].y_avg, weighted)
        /\ Eq(quadrant_analysis[1].x_avg, Div(SumSkipNa(quantity), OfInt(Len(quantity))))
        /\ raw_data = ExampleProducts => Col(Entities, QUADRANT)[2] = 1

\* C3, amended: in product analysis the Y split point is the weighted mean
\* sum(profit) / sum(quantity) * 10000 when the total quantity is > 0 and the
\* arithmetic mean of the entities' unit margins otherwise; the X split point is
\* the arithmetic mean of the quantities; in the worked example the entity with
\* quantity 20 is in quadrant 1.
C3_WeightedMeanOfPositiveTotal ==
  (quadrant_analysis # None /\ AnalysisType = "product") =>
    LET profit == Col(Entities, field_mapping["profit"])
        quantity == Col(Entities, field_mapping["quantity"])
        margins == Col(Entities, TON_PROFIT)
        weighted == Mul(Div(SumSkipNa(profit), SumSkipNa(quantity)), OfInt(10000))
        arithmetic == Div(SumSkipNa(margins), OfInt(Len(margins)))
        splitY == quadrant_analysis[1].y_avg
    IN  /\ Gt(SumSkipNa(quantity), OfInt(0)) => Eq(splitY, weighted)
        /\ ~Gt(SumSkipNa(quantity), OfInt(0)) =>
             IF IsNaN(arithmetic) THEN IsNaN(splitY) ELSE Eq(splitY, arithmetic)
        /\ Eq(quadrant_analysis[1].x_avg, Div(SumSkipNa(quantity), OfInt(Len(quantity))))
        /\ raw_data = ExampleProducts => Col(Entities, QUADRANT)[2] = 1

\* the worked example was analysed: the weighted mean is the split point, it is not
\* the arithmetic mean of the unit margins, and the entity with quantity 20 is in
\* quadrant 1
C3_Witness ==
  /\ quadrant_analysis # None
  /\ AnalysisType = "product"
  /\ raw_data = ExampleProducts
  /\ LET margins == Col(Entities, TON_PROFIT)
     IN  ~Eq(quadrant_analysis[1].y_avg, Div(SumSkipNa(margins), OfInt(Len(margins))))
  /\ Col(Entities, QUADRANT)[2] = 1

\* ------------------------------------------------------------------ aggregation: C4

\* C4: wherever aggregation ran, the aggregated entities are the distinct names of the
\* grouping column of the derived rows, each once; every summed column of an entity is
\* the sum over its rows; and with quantity and profit mapped the unit margin of an
\* entity of non-zero total quantity is (sum of profit) / (sum of quantity) * 10000,
\* with cost and amount mapped the cost rate of an entity of non-zero total amount is
\* (sum of total cost) / (sum of amount) clamped to [0, 10].
C4_SumThenDerive ==
  aggregated_data # None =>
    LET group_column == field_mapping[AnalysisType]
        rows == processed_data[1]
        keys == Col(Entities, group_column)
        Total(e, column) == GroupTotal(rows, group_column, keys[e], column)
    IN  /\ \A e, f \in DOMAIN keys : keys[e] = keys[f] => e = f
        /\ Range(keys) = Range(Col(rows, group_column))
        /\ ("quantity" \in DOMAIN field_mapping /\ "profit" \in DOMAIN field_mapping) =>
             /\ HasCol(Entities, TON_PROFIT)
             /\ \A e \in DOMAIN keys :
                  LET profit == Total(e, field_mapping["profit"])
                      quantity == Total(e, field_mapping["quantity"])
                  IN  /\ Eq(Col(Entities, field_mapping["profit"])[e], profit)
                      /\ Eq(Col(Entities, field_mapping["quantity"])[e], quantity)
                      /\ ~Eq(quantity, OfInt(0)) =>
                           Eq(Col(Entities, TON_PROFIT)[e],
                              Mul(Div(profit, quantity), OfInt(10000)))
        /\ (HasCol(rows, TOTAL_COST) /\ "amount" \in DOMAIN field_mapping) =>
             /\ HasCol(Entities, COST_RATE)
             /\ \A e \in DOMAIN keys :
                  LET total_cost == Total(e, TOTAL_COST)
                      amount == Total(e, field_mapping["amount"])
                  IN  /\ Eq(Col(Entities, TOTAL_COST)[e], total_cost)
                      /\ Eq(Col(Entities, field_mapping["amount"])[e], amount)
                      /\ ~Eq(amount, OfInt(0)) =>
                           Eq(Col(Entities, COST_RATE)[e], Clip(Div(total_cost, amount)))

\* two entities were aggregated, one of them from two rows of different non-zero
\* quantity, and its unit margin is neither the mean nor the sum of its rows' unit
\* margins
C4_Witness ==
  /\ aggregated_data # None
  /\ HasCol(Entities, TON_PROFIT)
  /\ Len(Entities.rows) = 2
  /\ Len(processed_data[1].rows) = 3
  /\ LET group_column == field_mapping[AnalysisType]
         rows == processed_data[1]
         keys == Col(Entities, group_column)
     IN  \E e \in DOMAIN keys :
           /\ \A r \in DOMAIN rows.rows :
                ~Eq(Col(rows, field_mapping["quantity"])[r], OfInt(0))
           /\ ~Eq(Col(Entities, TON_PROFIT)[e],
                  GroupMean(rows, group_column, keys[e], TON_PROFIT))
           /\ ~Eq(Col(Entities, TON_PROFIT)[e],
                  GroupTotal(rows, group_column, keys[e], TON_PROFIT))

\* ------------------------------------------------------------------ Pareto: C5 - C7

\* the cumulative percentages of pareto_data, in rank order
Percents == Col(pareto_analysis[1].pareto_data, CUM_PERCENT)

\* the ranks whose cumulative percentage is >= 80
Reached == {i \in DOMAIN Percents : Ge(Percents[i], OfInt(80))}

\* the length of the shortest prefix whose cumulative percentage is >= 80
ShortestReaching == CHOOSE i \in Reached : \A j \in Reached : i <= j

\* C5: wherever the Pareto analysis ran, pareto_data is ranked in descending order of
\* the dimension, the core set is a non-empty prefix of it, every entity whose
\* cumulative percentage is <= 80 (80 itself included) is in the core set, every core
\* entity after the first has a cumulative percentage <= 80, and when the first entity
\* alone exceeds 80 the core set is that one entity.
C5_CorePrefixWithin80 ==
  pareto_analysis # None =>
    LET pareto == pareto_analysis[1]
        ranked == Col(pareto.pareto_data, field_mapping[pareto.dimension])
        core == pareto.core_items_count
    IN  /\ \A i \in 1..(Len(ranked) - 1) : Ge(ranked[i], ranked[i + 1])
        /\ core >= 1
        /\ core <= pareto.total_items
        /\ pareto.total_items = Len(Percents)
        /\ pareto.core_items.rows = SubSeq(pareto.pareto_data.rows, 1, core)
        /\ \A i \in DOMAIN Percents : Le(Percents[i], OfInt(80)) => i <= core
        /\ \A i \in 2..core : Le(Percents[i], OfInt(80))
        /\ Gt(Percents[1], OfInt(80)) => core = 1

\* a core set of two entities or more whose last entity has a cumulative percentage
\* of exactly 80
C5_Witness ==
  /\ pareto_analysis # None
  /\ pareto_analysis[1].core_items_count >= 2
  /\ Eq(Percents[pareto_analysis[1].core_items_count], OfInt(80))

\* C6 as stated: wherever the Pareto analysis ran and some prefix reaches 80%, the
\* core set is the shortest prefix whose cumulative percentage is >= 80.
C6_ShortestPrefixReaching80 ==
  (pareto_analysis # None /\ Reached # {}) =>
    pareto_analysis[1].core_items_count = ShortestReaching

\* C6, amended: the core set is the longest prefix whose cumulative percentage is
\* <= 80 (one entity when there is none).  Where the shortest prefix reaching 80%
\* has two entities or more and exceeds 80, the core set is that prefix less its last
\* entity; where it lands exactly on 80, or is the first entity alone, the core set
\* contains it.
C6_CoreStopsBefore80IsExceeded ==
  (pareto_analysis # None /\ Reached # {}) =>
    LET core == pareto_analysis[1].core_items_count
    IN  /\ (ShortestReaching > 1 /\ Gt(Percents[ShortestReaching], OfInt(80))) =>
             core = ShortestReaching - 1
        /\ (ShortestReaching = 1 \/ Eq(Percents[ShortestReaching], OfInt(80))) =>
             core >= ShortestReaching
        /\ core < Len(Percents) => ~Le(Percents[core + 1], OfInt(80))

\* the shortest prefix reaching 80% has two entities or more and exceeds 80, and the
\* core set is one entity shorter
C6_Witness ==
  /\ pareto_analysis # None
  /\ Reached # {}
  /\ ShortestReaching > 1
  /\ Gt(Percents[ShortestReaching], OfInt(80))
  /\ pareto_analysis[1].core_items_count = ShortestReaching - 1

\* C7 as stated: wherever the Pareto analysis ran, the cumulative percentages are
\* non-decreasing along the ranking and the last one is >= 80.
C7_CumulativeNonDecreasing ==
  pareto_analysis # None =>
    /\ \A i \in 1..(Len(Percents) - 1) : Le(Percents[i], Percents[i + 1])
    /\ Ge(Percents[Len(Percents)], OfInt(80))

\* ------------------------------------------------------------------ derived metrics: C8, C9

\* the derived rows and the aggregated entities a call left, as a set of DataFrames
Derived ==
  (IF processed_data = None THEN {} ELSE {processed_data[1]})
    \cup (IF aggregated_data = None THEN {} ELSE {aggregated_data[1]})

\* C8: with a cost component and amount mapped every derived row and every aggregated
\* entity has a cost rate, 0 <= cost rate <= 10, and the cost rate is 0 wherever the
\* amount is 0 or missing.
C8_CostRateBounded ==
  \A data \in Derived :
    ((\E i \in DOMAIN cost_fields : cost_fields[i] \in DOMAIN field_mapping)
       /\ "amount" \in DOMAIN field_mapping) =>
      /\ HasCol(data, COST_RATE)
      /\ LET cost_rate == Col(data, COST_RATE)
             amount == Col(data, field_mapping["amount"])
         IN  \A r \in DOMAIN cost_rate :
               /\ Ge(cost_rate[r], OfInt(0))
               /\ Le(cost_rate[r], OfInt(10))
               /\ (IsNaN(amount[r]) \/ Eq(amount[r], OfInt(0))) => Eq(cost_rate[r], OfInt(0))

\* the rows of one call hold a missing amount and a zero amount beside a cost that is
\* not 0, a negative amount, a negative cost, and an entity whose total cost is more
\* than ten times its amount and whose cost rate is 10
C8_Witness ==
  /\ processed_data # None
  /\ aggregated_data # None
  /\ HasCol(processed_data[1], COST_RATE)
  /\ LET rows == processed_data[1]
         amount == Col(rows, field_mapping["amount"])
         total_cost == Col(rows, TOTAL_COST)
     IN  /\ \E r \in DOMAIN amount : IsNaN(amount[r]) /\ ~Eq(total_cost[r], OfInt(0))
         /\ \E r \in DOMAIN amount : Eq(amount[r], OfInt(0)) /\ ~Eq(total_cost[r], OfInt(0))
         /\ \E r \in DOMAIN amount : Lt(amount[r], OfInt(0)) \/ Lt(total_cost[r], OfInt(0))
  /\ LET amount == Col(Entities, field_mapping["amount"])
         total_cost == Col(Entities, TOTAL_COST)
     IN  \E e \in DOMAIN amount :
           /\ Gt(amount[e], OfInt(0))
           /\ Gt(total_cost[e], Mul(OfInt(10), amount[e]))
           /\ Eq(Col(Entities, COST_RATE)[e], OfInt(10))

\* C9 as stated: with quantity and profit mapped, every derived row and every
\* aggregated entity whose quantity is 0 has a unit margin of 0.
C9_ZeroQuantityZeroMargin ==
  \A data \in Derived :
    HasCol(data, TON_PROFIT) =>
      LET quantity == Col(data, field_mapping["quantity"])
          margin == Col(data, TON_PROFIT)
      IN  \A r \in DOMAIN quantity :
            Eq(quantity[r], OfInt(0)) => Eq(margin[r], OfInt(0))

\* ------------------------------------------------------------------ validation: C10

\* the role has a header: it is a key of the field mapping and its header is not empty
Mapped(role) == role \in DOMAIN field_mapping /\ field_mapping[role] # <<>>

\* C10: a call of analyze passes validation iff the grouping role of its analysis type
\* is mapped and one of quantity, profit, amount is; otherwise it raises in validation,
\* the error lists the grouping role when that is not mapped and the value roles without
\* a key when none is mapped, and neither processed_data nor any later result is set.
C10_ValidationGate ==
  call # None =>
    LET value_roles == {"quantity", "profit", "amount"}
        grouping == Mapped(AnalysisType)
        value == \E role \in value_roles : Mapped(role)
        failed == outcome.status = "raised" /\ outcome.stage = "validation"
    IN  /\ ~failed <=> (grouping /\ value)
        /\ ~failed => processed_data # None
        /\ failed =>
             /\ outcome.error[1] = "missing fields"
             /\ outcome.error[2] # <<>>
             /\ Range(outcome.error[2]) =
                  (IF grouping THEN {} ELSE {AnalysisType})
                    \cup (IF value THEN {}
                          ELSE {role \in value_roles : role \notin DOMAIN field_mapping})
             /\ processed_data = None
             /\ aggregated_data = None
             /\ quadrant_analysis = None
             /\ pareto_analysis = None

\* a call failed validation for want of a value role although its grouping role is
\* mapped, and left processed_data unset
C10_Witness ==
  /\ call # None
  /\ outcome.status = "raised"
  /\ outcome.stage = "validation"
  /\ Mapped(AnalysisType)
  /\ outcome.error[2] = <<"quantity", "profit", "amount">>
  /\ processed_data = None

\* ------------------------------------------------------------------ later stages: C11

\* C11 as stated: a call of analyze whose grouping role and one of quantity, profit,
\* amount are mapped does not raise.
C11_ValidSheetsReturn ==
  (call # None /\ Mapped(AnalysisType) /\ \E role \in {"quantity", "profit", "amount"} : Mapped(role)) =>
    outcome.status # "raised"

\* ------------------------------------------------------------------ distribution: C12

\* the item counts of a distribution, added up
RECURSIVE SumCounts(_)
SumCounts(distribution_data) ==
  IF distribution_data = <<>> THEN 0
  ELSE Head(distribution_data).count + SumCounts(Tail(distribution_data))

\* C12 as stated: wherever the fixed-scheme distribution ran, an entity is in bin i
\* iff its primary value lies in [lo_i, hi_i), so a value equal to a boundary is in
\* the bin that starts there, and the bin item counts sum to total_count, the number
\* of aggregated entities, negative primary values included.
C12_HalfOpenBinsCountEveryEntity ==
  distribution_analysis # None =>
    LET primary == Col(Entities, field_mapping[distribution_fields(AnalysisType).primary_field])
        interval == Col(Entities, INTERVAL)
        bins == interval_configs_intervals(AnalysisType)
        labels == interval_configs_labels(AnalysisType)
    IN  /\ \A e \in DOMAIN primary : \A i \in DOMAIN labels :
             (interval[e].k = "category" /\ interval[e].label = labels[i])
               <=> (Ge(primary[e], bins[i]) /\ Lt(primary[e], bins[i + 1]))
        /\ distribution_analysis[1].total_count = Len(Entities.rows)
        /\ SumCounts(distribution_analysis[1].distribution_data) =
             distribution_analysis[1].total_count

\* ------------------------------------------------------------------ cost rates: C13 - C16

\* the cost rates _cost_rate_distribution considered: data['成本率'].dropna()
CostRates == DropNa(Col(Entities, COST_RATE))

\* the strategies _calculate_dynamic_intervals returned and the methods surfaced
IntervalsConfig == rate_distribution[1].intervals_config
DivisionMethods == rate_distribution[1].division_methods

\* C13 as stated: the bin counts of every method in division_methods sum to the
\* number of cost rates considered.
C13_EveryRateInOneBin ==
  rate_distribution # None =>
    \A m \in DOMAIN DivisionMethods :
      SumCounts(DivisionMethods[m].distribution_data) = Len(CostRates)

\* C14: every strategy _calculate_dynamic_intervals returned, and every method
\* surfaced in division_methods, has at least 3 boundary points, all finite and
\* strictly increasing, and one label per interval; the equal-width and quartile
\* candidates are among them only when they pass that check.
C14_StrategiesWellFormed ==
  rate_distribution # None =>
    LET WellFormed(intervals, labels) ==
          /\ Len(intervals) >= 3
          /\ \A i \in DOMAIN intervals : IsNum(intervals[i])
          /\ \A i \in 2..Len(intervals) : Lt(intervals[i - 1], intervals[i])
          /\ Len(labels) = Len(intervals) - 1
    IN  /\ \A s \in DOMAIN IntervalsConfig :
             WellFormed(IntervalsConfig[s].intervals, IntervalsConfig[s].labels)
        /\ \A m \in DOMAIN DivisionMethods :
             WellFormed(DivisionMethods[m].intervals, DivisionMethods[m].labels)

\* C14's case: the rates have a range and one exceeds 1.0, so the equal-width
\* candidate ends at 1.0 below its fifth edge, and it was not returned
C14_Witness ==
  /\ rate_distribution # None
  /\ CostRates # <<>>
  /\ Lt(SeriesMin(CostRates), SeriesMax(CostRates))
  /\ Gt(SeriesMax(CostRates), OfInt(1))
  /\ \A s \in DOMAIN IntervalsConfig : IntervalsConfig[s].method_type # "equal_width"
  /\ \E s \in DOMAIN IntervalsConfig : IntervalsConfig[s].method_type = "quartile"

\* a method name that carries the recommended label '（推荐）'
IsRecommended(method_name) ==
  /\ Len(method_name) >= Len(RECOMMENDED)
  /\ SubSeq(method_name, Len(method_name) - Len(RECOMMENDED) + 1, Len(method_name))
       = RECOMMENDED

\* all rates considered are the same
AllRatesEqual == CostRates # <<>> /\ \A r \in DOMAIN CostRates : CostRates[r] = CostRates[1]

\* C15 as stated: when all rates are the same, neither the quartile nor the
\* equal-width strategy is produced and the one strategy is the two-bucket split at
\* the midpoint of the observed minimum and maximum.
C15_EqualRatesFallBackToMidpoint ==
  (rate_distribution # None /\ AllRatesEqual) =>
    /\ Len(IntervalsConfig) = 1
    /\ IntervalsConfig[1].method_type = "simple"
    /\ Len(IntervalsConfig[1].intervals) = 3
    /\ IntervalsConfig[1].intervals[2] = CostRates[1]

\* C15 amended: when all rates are the same, neither the quartile nor the equal-width
\* strategy is produced; the fixed scheme is, so there is no fallback: the one
\* strategy is the standard scheme for a rate within [0, 1] and the extended scheme
\* for a rate above 1, it carries the recommended label, and a method is surfaced
\* for it.
C15_EqualRatesUseFixedScheme ==
  (rate_distribution # None /\ AllRatesEqual) =>
    /\ Len(IntervalsConfig) = 1
    /\ IntervalsConfig[1].method_type =
         (IF Le(CostRates[1], OfInt(1)) THEN "standard" ELSE "extended")
    /\ IsRecommended(IntervalsConfig[1].method_name)
    /\ Len(DivisionMethods) = 1
    /\ DivisionMethods[1].method_name = IntervalsConfig[1].method_name

\* C15's case: three entities, all with the cost rate 0.5
C15_Witness ==
  /\ rate_distribution # None
  /\ CostRates = <<Num(1, 2), Num(1, 2), Num(1, 2)>>

\* C16 as stated: when strategies were produced, exactly one carries the recommended
\* label and it is the first; it is the quartile strategy whenever that is among
\* them; and the distribution at the top level of the result is that of the
\* recommended strategy.
C16_RecommendedFirstAndSurfaced ==
  (rate_distribution # None /\ IntervalsConfig # <<>>) =>
    /\ IsRecommended(IntervalsConfig[1].method_name)
    /\ \A s \in 2..Len(IntervalsConfig) : ~IsRecommended(IntervalsConfig[s].method_name)
    /\ \A s \in DOMAIN IntervalsConfig :
         IntervalsConfig[s].method_type = "quartile" => s = 1
    /\ DivisionMethods # <<>>
    /\ DivisionMethods[1].method_name = IntervalsConfig[1].method_name
    /\ rate_distribution[1].distribution_data =
         IntervalCounts(CostRates, IntervalsConfig[1].intervals, IntervalsConfig[1].labels)

\* ------------------------------------------------------------------ units: C17

\* the unit the call confirmed for a key, "" when it confirmed none
Confirmed(key) == IF key \in DOMAIN unit_confirmations THEN unit_confirmations[key] ELSE ""

\* C17: wherever analyze got past validation, every cell of every column of the sheet
\* is in processed_data what it was in the sheet, except that a non-missing cell of
\* the quantity column is divided by 1000 iff the confirmed quantity unit is 'kg' and
\* a non-missing cell of the profit and amount columns by 10000 iff the confirmed
\* amount unit is 'yuan' (Divisor); a missing cell stays missing, the grouping column and the
\* cost column are unchanged, and no row is added or dropped.
C17_UnitNormalisationFrame ==
  LET Divisor(column) ==
        IF /\ Mapped("quantity")
           /\ column = field_mapping["quantity"]
           /\ Confirmed("quantity") = "kg"
        THEN 1000
        ELSE IF /\ \E role \in {"profit", "amount"} :
                     Mapped(role) /\ column = field_mapping[role]
                /\ Confirmed("amount") = "yuan"
        THEN 10000
        ELSE 1
  IN
  processed_data # None =>
    /\ Len(processed_data[1].rows) = Len(raw_data.rows)
    /\ SubSeq(processed_data[1].columns, 1, Len(raw_data.columns)) = raw_data.columns
    /\ \A c \in DOMAIN raw_data.columns : \A r \in DOMAIN raw_data.rows :
         LET before == raw_data.rows[r][c]
             after == processed_data[1].rows[r][c]
             divisor == Divisor(raw_data.columns[c])
         IN  IF divisor = 1 \/ IsNaN(before) THEN after = before
             ELSE after = Num(before.n, before.d * divisor)

\* C17's case: a product sheet in kilograms and yuan with an empty quantity cell, an
\* empty amount cell and a profit of -10000 yuan, processed to an empty quantity, an
\* empty amount and a profit of -1
C17_Witness ==
  /\ processed_data # None
  /\ Confirmed("quantity") = "kg" /\ Confirmed("amount") = "yuan"
  /\ Mapped("quantity") /\ Mapped("profit") /\ Mapped("amount")
  /\ \E r \in DOMAIN raw_data.rows :
       /\ IsNaN(Col(raw_data, field_mapping["quantity"])[r])
       /\ IsNaN(Col(processed_data[1], field_mapping["quantity"])[r])
       /\ IsNaN(Col(raw_data, field_mapping["amount"])[r])
       /\ IsNaN(Col(processed_data[1], field_mapping["amount"])[r])
       /\ Col(raw_data, field_mapping["profit"])[r] = OfInt(-10000)
       /\ Col(processed_data[1], field_mapping["profit"])[r] = OfInt(-1)

\* ------------------------------------------------------------------ profit and loss: C18

\* C18: wherever profit/loss analysis ran, the profitable items are the entities whose
\* criterion is > 0 and the loss-making items those whose criterion is <= 0, the
\* criterion being the unit margin for product analysis and the total profit for
\* customer and region analysis (the Y column of the quadrants); every entity is in
\* exactly one of the two lists, and profitable_count + loss_count = total_count.
C18_ProfitLossPartition ==
  profit_loss_analysis # None =>
    LET criterion == Col(Entities, YColumn)
        summary == profit_loss_analysis[1]
        profitable == Range(summary.profitable_items)
        loss_making == Range(summary.loss_making_items)
    IN  /\ profitable = {e \in DOMAIN Entities.rows : Gt(criterion[e], OfInt(0))}
        /\ loss_making = {e \in DOMAIN Entities.rows : Le(criterion[e], OfInt(0))}
        /\ profitable \cap loss_making = {}
        /\ profitable \cup loss_making = DOMAIN Entities.rows
        /\ summary.profitable_count = Cardinality(profitable)
        /\ summary.loss_count = Cardinality(loss_making)
        /\ summary.total_count = Len(Entities.rows)
        /\ summary.profitable_count + summary.loss_count = summary.total_count

\* C18's case: a product analysis with one product of unit margin exactly 0, listed
\* as loss-making, and one of positive unit margin, listed as profitable
C18_Witness ==
  /\ profit_loss_analysis # None
  /\ AnalysisType = "product"
  /\ \E e \in Range(profit_loss_analysis[1].loss_making_items) :
       Col(Entities, TON_PROFIT)[e] = OfInt(0)
  /\ \E e \in Range(profit_loss_analysis[1].profitable_items) :
       Gt(Col(Entities, TON_PROFIT)[e], OfInt(0))

\* ------------------------------------------------------------------ field detection: C19, C20

\* the place (from 0) in the alias list of role of the alias a header matches: the
\* alias it equals, else the first alias it holds or is held by; 999 when it matches
\* no alias of the role
MatchRank(header, role) ==
  LET cleaned_name == clean_column_name(header)
      list == ListOf(get_field_aliases, role)
      exact == {i \in DOMAIN list : list[i] = cleaned_name}
      fuzzy == {i \in DOMAIN list :
                  Substring(list[i], cleaned_name) \/ Substring(cleaned_name, list[i])}
      First(S) == (CHOOSE i \in S : \A j \in S : i <= j) - 1
  IN  IF exact # {} THEN First(exact) ELSE IF fuzzy # {} THEN First(fuzzy) ELSE 999

\* the headers of the sheet that resolve to a role
Resolving(role) == {h \in Range(raw_data.columns) : detect_field_type(h) = role}

\* C19 as stated: the mapping holds one header per role, one that resolves to the
\* role, and among the headers that resolve to the role none matches an alias that
\* comes earlier in the role's alias list than the alias the kept header matches,
\* exactly or by substring; a header that matches no alias ranks last.
C19_EarliestAliasWins ==
  \A role \in DOMAIN field_mapping :
    /\ field_mapping[role] \in Resolving(role)
    /\ \A h \in Resolving(role) : MatchRank(field_mapping[role], role) <= MatchRank(h, role)

\* C20: for every header of the sheet, with name its cleaned form: if name is an
\* alias, the header resolves to the role of that alias, whatever it shares with
\* aliases of other roles; else if name holds or is held by an alias, to the first
\* role with such an alias; else if it holds a keyword, to a role; else to 'unknown'.
\* The mapping holds no 'unknown' key and only headers that resolve to their role,
\* and once detection ran every header that resolves to a role has that role mapped.
C20_StagesInOrder ==
  /\ \A h \in Range(raw_data.columns) :
       LET name == clean_column_name(h)
           RoleOfFirst(table, hits) ==
             LET entries == {i \in DOMAIN table : Range(table[i][2]) \cap hits # {}}
             IN  IF entries = {} THEN "unknown"
                 ELSE table[CHOOSE i \in entries : \A j \in entries : i <= j][1]
           Strings(table) == UNION {Range(table[i][2]) : i \in DOMAIN table}
           exact == {alias \in Strings(get_field_aliases) : alias = name}
           held == {alias \in Strings(get_field_aliases) :
                      Substring(alias, name) \/ Substring(name, alias)}
           keywords == {pattern \in Strings(special_patterns) : Substring(pattern, name)}
                         \cup {pattern \in Strings(loose_patterns) :
                                 \E i \in DOMAIN pattern : Substring(<<pattern[i]>>, name)}
       IN  /\ \A role \in Range(Keys(get_field_aliases)) :
                name \in Range(ListOf(get_field_aliases, role))
                  => detect_field_type(h) = role
           /\ (exact = {} /\ held # {}) =>
                detect_field_type(h) = RoleOfFirst(get_field_aliases, held)
           /\ (held = {} /\ keywords # {}) =>
                detect_field_type(h) \in Range(Keys(get_field_aliases))
           /\ (held = {} /\ keywords = {}) => detect_field_type(h) = "unknown"
  /\ \A role \in DOMAIN field_mapping :
       /\ role # "unknown"
       /\ field_mapping[role] \in Range(raw_data.columns)
       /\ detect_field_type(field_mapping[role]) = role
  /\ field_mapping # EmptyDict =>
       \A h \in Range(raw_data.columns) :
         detect_field_type(h) # "unknown" => detect_field_type(h) \in DOMAIN field_mapping

\* C20's case: detection ran on a sheet with '运费', an alias of land freight that
\* lies inside the sea-freight alias '海运费', with '净利', which only a keyword
\* resolves, and with '备注', which nothing resolves
C20_Witness ==
  /\ Range(raw_data.columns) = {H_FREIGHT, H_NET_PROFIT, H_REMARK}
  /\ DOMAIN field_mapping = {"land_freight", "profit"}
  /\ field_mapping["land_freight"] = H_FREIGHT
  /\ field_mapping["profit"] = H_NET_PROFIT
  /\ Substring(H_FREIGHT, ListOf(get_field_aliases, "sea_freight")[1])

\* ------------------------------------------------------------------ loaded headers: C22

\* C22 as stated: the headers of a loaded table are not empty and no two columns of
\* it have the same header.
C22_HeadersUniqueNonEmpty ==
  /\ \A i \in DOMAIN raw_data.columns : raw_data.columns[i] # <<>>
  /\ \A i, j \in DOMAIN raw_data.columns :
       i # j => raw_data.columns[i] # raw_data.columns[j]

\* ------------------------------------------------------------------ the shared table: C23

\* C23 as stated: the aggregated table an analysis returns is the table
\* _aggregate_data built, with the columns and the values it had before the views ran.
C23_ViewsLeaveAggregatedTable ==
  (outcome.status = "returned" /\ aggregated_data # None) =>
    aggregated_data[1] = _aggregate_data(processed_data[1], field_mapping, AnalysisType)

\* ------------------------------------------------------------------ the raw table: C24

\* what a call of analyze leaves behind it
Analysed ==
  <<outcome, processed_data, aggregated_data, quadrant_analysis, pareto_analysis,
    distribution_analysis, profit_loss_analysis, rate_distribution>>

\* C24: no call of detect_fields or analyze changes raw_data; a field mapping once
\* detected is what every later detection yields; and analyze called again with the
\* arguments of the call before it leaves the result that call left.
C24_RawDataReadOnly ==
  [][/\ raw_data' = raw_data
     /\ field_mapping # EmptyDict => field_mapping' = field_mapping
     /\ (call # None /\ call' = call) => Analysed' = Analysed]_vars

\* C24's case: analyze ran with amounts confirmed in yuan: the processed amount is 2
\* (ten-thousand yuan), the raw amount still 20000
C24_Witness ==
  /\ call # None
  /\ "amount" \in DOMAIN call[1].unit_confirmations
  /\ processed_data # None
  /\ \E r \in DOMAIN raw_data.rows :
       /\ Col(raw_data, H_AMOUNT)[r] = OfInt(20000)
       /\ Col(processed_data[1], H_AMOUNT)[r] = OfInt(2)

\* ------------------------------------------------------------------ the Pareto dimension: C21

\* the dimension a Pareto result has to report when the usable dimensions are the
\* usable ones of the three, in the order given: the requested one when usable,
\* otherwise the default of the analysis type when usable, otherwise the first usable
ExpectedDimension(usable) ==
  LET requested == call[1].pareto_dimension
      default == IF AnalysisType = "product" THEN "profit" ELSE "amount"
      present == SelectSeq(usable, LAMBDA dim : dim \in DOMAIN field_mapping)
  IN  IF requested \in Range(present) THEN requested
      ELSE IF default \in Range(present) THEN default
      ELSE present[1]

\* C21: wherever a Pareto result was returned, its dimension is the requested one when
\* that is mapped and offered for the analysis type (profit and quantity for product;
\* amount, profit and quantity for customer and region), otherwise the default of the
\* analysis type, otherwise the first offered dimension that is mapped; and it is
\* one of the result's available_dimensions.
C21_OfferedDimensionUsed ==
  pareto_analysis # None =>
    /\ pareto_analysis[1].dimension =
         ExpectedDimension(IF AnalysisType = "product" THEN <<"profit", "quantity">>
                           ELSE <<"amount", "profit", "quantity">>)
    /\ pareto_analysis[1].dimension \in Range(pareto_analysis[1].available_dimensions)

\* C21 as stated: the requested dimension is used whenever it is mapped.
C21_MappedDimensionUsed ==
  pareto_analysis # None =>
    /\ pareto_analysis[1].dimension = ExpectedDimension(<<"profit", "amount", "quantity">>)
    /\ pareto_analysis[1].dimension \in Range(pareto_analysis[1].available_dimensions)

\* C21's case: a product analysis asked to rank by amount, which is mapped, ranked
\* by profit
C21_Witness ==
  /\ pareto_analysis # None
  /\ AnalysisType = "product"
  /\ call[1].pareto_dimension = "amount"
  /\ "amount" \in DOMAIN field_mapping
  /\ pareto_analysis[1].dimension = "profit"

\* ------------------------------------------------------------------ records: C25

\* C25: what safe_to_dict returned has one record for each row of the frame, in the
\* order of the rows, and under each column name None where the cell of the row is
\* NaN, inf or -inf and the value of the cell where it is any other number.
C25_RecordsKeepFiniteCells ==
  records # None =>
    /\ Len(records[1]) = Len(raw_data.rows)
    /\ \A r \in DOMAIN raw_data.rows : \A i \in DOMAIN raw_data.columns :
         LET cell == raw_data.rows[r][i]
             value == records[1][r][raw_data.columns[i]]
         IN  IF cell.k = "num" THEN value = <<cell>> ELSE value = <<>>

\* C25's case: records were made of a frame of two rows that holds NaN, inf, -inf
\* and a finite number
C25_Witness ==
  /\ records # None
  /\ Len(raw_data.rows) = 2
  /\ {raw_data.rows[r][i] : r \in {1, 2}, i \in {1, 2}} = {NaN, PInf, NInf, Num(5, 2)}

\* ------------------------------------------------------------------ the drill-down: C26

\* C26 as stated: a customer analysis of a sheet that has a product column, a customer
\* column and what cost analysis reads does not raise in cost analysis.
C26_DrillDownByGroupingColumn ==
  (call # None /\ AnalysisType = "customer" /\ Mapped("product") /\ Mapped("customer")
     /\ Mapped("cost")) =>
    ~(outcome.status = "raised" /\ outcome.stage = "cost_analysis")

\* ------------------------------------------------------------------ cost rate and units: C27

\* C27 as stated: where an analysis of a sheet in yuan with amounts confirmed in yuan
\* returned,
\* the total cost and the cost rate of every row and of every aggregated entity are
\* those of the same records written in ten-thousand yuan (profit, amount and every
\* cost column divided by 10000) and analysed with amounts confirmed in wan_yuan.
C27_CostRateUnitFree ==
  (outcome.status = "returned" /\ Mapped("amount") /\ Mapped("cost")
     /\ "amount" \in DOMAIN unit_confirmations) =>
    LET money == {field_mapping[role] :
                    role \in DOMAIN field_mapping \cap ({"profit", "amount"} \cup Range(cost_fields))}
        in_wan_yuan ==
          [columns |-> raw_data.columns,
           rows |-> [r \in DOMAIN raw_data.rows |->
                       [i \in DOMAIN raw_data.columns |->
                          IF raw_data.columns[i] \in money
                          THEN Div(raw_data.rows[r][i], OfInt(10000))
                          ELSE raw_data.rows[r][i]]]]
        processed ==
          _calculate_derived_metrics(
            _apply_unit_conversions(in_wan_yuan, field_mapping,
                                    [unit_confirmations EXCEPT !["amount"] = "wan_yuan"]),
            field_mapping)
        entities == _aggregate_data(processed_data[1], field_mapping, AnalysisType)
        entities_in_wan_yuan == _aggregate_data(processed, field_mapping, AnalysisType)
    IN  /\ unit_confirmations["amount"] = "yuan"
        /\ Col(processed_data[1], TOTAL_COST) = Col(processed, TOTAL_COST)
        /\ Col(processed_data[1], COST_RATE) = Col(processed, COST_RATE)
        /\ Col(entities, TOTAL_COST) = Col(entities_in_wan_yuan, TOTAL_COST)
        /\ Col(entities, COST_RATE) = Col(entities_in_wan_yuan, COST_RATE)

\* ------------------------------------------------------------------ profit and loss totals: C28

\* C28 as stated: in every profit/loss summary, total_profit is the total profit of
\* the profitable entities added up, total_loss is the absolute value of the total
\* profit of the loss-making entities added up, and net_profit is their difference
\* and is the total profit of all entities added up.
C28_NetProfitIsTotalProfit ==
  profit_loss_analysis # None =>
    LET summary == profit_loss_analysis[1]
        profit == Col(Entities, field_mapping["profit"])
        Total(items) == SumSkipNa([i \in DOMAIN items |-> profit[items[i]]])
        lost == Total(summary.loss_making_items)
    IN  /\ summary.total_profit = Total(summary.profitable_items)
        /\ summary.total_loss = (IF lost.n < 0 THEN Neg(lost) ELSE lost)
        /\ summary.net_profit = Sub(summary.total_profit, summary.total_loss)
        /\ summary.net_profit = SumSkipNa(profit)

\* ------------------------------------------------------------------ concurrent requests: C29

\* C29 as stated: once every /analyze request made for the file is answered, what
\* analysis_results holds for the file, if a result is stored, is the result and the
\* three arguments of one of the requests.
C29_StoredFromOneRequest ==
  ((\A r \in DOMAIN requests : requests[r].at = "responded")
     /\ analysis_results.analysis_result # None) =>
    \E r \in DOMAIN requests :
      /\ analysis_results.analysis_result =
           Some([analysis_type |-> requests[r].analysis_type,
                 unit_confirmations |-> requests[r].unit_confirmations,
                 pareto_dimension |-> requests[r].pareto_dimension])
      /\ analysis_results.analysis_type = Some(requests[r].analysis_type)
      /\ analysis_results.unit_confirmations = Some(requests[r].unit_confirmations)
      /\ analysis_results.pareto_dimension = Some(requests[r].pareto_dimension)

\* ------------------------------------------------------------------ the history: C30

\* C30 as stated: the history holds at most 100 entries, and they are the last 100
\* (or all) of the calls of perform_analysis that returned, in the order of the
\* calls; and what get_analysis_history(limit) returned has at most limit entries,
\* which are the last entries of the history, the most recent first.
C30_HistoryBoundedRecentFirst ==
  LET succeeded == SelectSeq([i \in DOMAIN performed |-> i], LAMBDA i : performed[i])
      Last(entries, n) == SubSeq(entries, Len(entries) - n + 1, Len(entries))
      Fewer(a, b) == IF a < b THEN a ELSE b
  IN  /\ Len(_analysis_history) <= 100
      /\ _analysis_history = Last(succeeded, Fewer(100, Len(succeeded)))
      /\ history # None =>
           LET returned == history[1].entries
               recent == Last(_analysis_history,
                              Fewer(history[1].limit, Len(_analysis_history)))
           IN  /\ Len(returned) <= history[1].limit
               /\ returned = [i \in DOMAIN recent |-> recent[Len(recent) + 1 - i]]

====
